---- MODULE Spec2Model ----
(***************************************************************************)
(* Model of the policy monitor: the task runner (crawler.run_task), the    *)
(* scheduler loop (scheduler.MonitorScheduler) and the manual run-now      *)
(* trigger (app.run_task_now), over the shared database rows they read and *)
(* write (MonitorTask, Website, CrawlLog, CrawlLogDetail, CrawlResult,     *)
(* NotificationLog).                                                       *)
(*                                                                         *)
(* A run is one invocation of run_task.  Its CrawlLog row carries the same *)
(* index as the run.  Page contents are abstract: a page is the set of its *)
(* links and its html, which extract_body_text flattens to a body text.    *)
(* Scores are tenths (6 stands for 0.6).                                   *)
(*                                                                         *)
(* The mail transport (email_utils), the keyword scoring of score_contents, *)
(* the snapshot serialization and fetch_html are computations on their     *)
(* arguments; EmailSpec, ScoreSpec, SnapshotSpec and FetchSpec apply them  *)
(* to inputs drawn from bounded sets.  StreamSpec (detail-stream reads),   *)
(* SetupSpec (ensure_setup) and ProxySpec (ProxyConfigService) model the   *)
(* request threads of the web application.                                 *)
(*                                                                         *)
(* Exceptions enter a run where run_task leaves the process or reads its   *)
(* configuration: a task without website, fetch_html, the similarity       *)
(* backend inside score_contents, and _send_task_notifications (whose      *)
(* session operations sit outside its own try/except).  The statements of  *)
(* the except block itself are taken to succeed, except under RaiseSpec,   *)
(* where they can raise too and the exception leaves run_task.             *)
(***************************************************************************)
EXTENDS Integers, Sequences, FiniteSets, TLC

\* ------------------------------------------------------------------ bounds
MaxRuns == 2
MaxTime == 60
MaxPhraseLen == 3
MaxTitleLen == 2
MaxSubpages == 2
MaxDetails == 4
MaxSetupCalls == 3
MaxProxyCalls == 5

\* ------------------------------------------------------- configuration data
Tasks == {1, 2, 3}
NoSite == 0
Links == {"a", "b"}
MainUrl == "main"
ClockSteps == {60}
\* the settings of MonitorTask.is_active: every task active, task 1 only, or
\* task 2 only
ActiveFlags ==
    {[t \in {1, 2, 3} |-> TRUE], [t \in {1, 2, 3} |-> t = 1],
     [t \in {1, 2, 3} |-> t = 2]}
\* the tasks whose run-now button is pressed
RunNowTasks == {2, 3}
SIMILARITY_THRESHOLD == 6
DefaultIntervalMinutes == 60

Runs == 1..MaxRuns

\* MonitorTask.watch_contents, in relationship order
watch_contents == <<1, 2>>

\* Website.fetch_subpages: site 1 is crawled in subpage mode, site 2 in
\* single-page mode
fetch_subpages(s) == s = 1

\* Website.interval_minutes (0 stands for an unset interval)
interval_minutes(s) == IF s = 1 THEN 30 ELSE 0

\* MonitorTask.notification_method
notification_method(t) == IF t = 1 THEN "email" ELSE "dingtalk"

\* the pages fetch_html can return for the main URL of a site: the links of
\* the document and the rest of its markup.  "p" and "p_ws" differ in
\* whitespace and script content only, "q" has another body text, "e" is a
\* document whose body holds no text.
MainPages(s) ==
    IF fetch_subpages(s)
    THEN {[links |-> L, html |-> "p"] : L \in {{"a"}, {"a", "b"}}}
    ELSE {[links |-> {}, html |-> h] : h \in {"p", "p_ws", "q", "e"}}

\* extract_body_text: the flattened body text of a document (0 is "")
extract_body_text_Raw(html) ==
    IF html = "p" THEN 1 ELSE IF html = "p_ws" THEN 3
    ELSE IF html = "q" THEN 2 ELSE 0
extract_body_text(html) ==
    IF html \in {"p", "p_ws"} THEN 1 ELSE IF html = "q" THEN 2 ELSE 0

\* Website.last_snapshot of a site that was never fetched, as parse_snapshot
\* returns it
NoSnapshot ==
    [present |-> FALSE, links |-> {}, html |-> "", text |-> 0, subs |-> <<>>]

VARIABLES
    now,            \* datetime.utcnow(), minutes
    taskWebsite,    \* MonitorTask.website: Tasks -> site or NoSite
    isActive,       \* MonitorTask.is_active
    lastRunAt,      \* MonitorTask.last_run_at (-1 is None)
    lastStatus,     \* MonitorTask.last_status ("none" is None)
    snapshot,       \* Website.last_snapshot
    logStatus,      \* CrawlLog.status ("none": row not created yet)
    logFinished,    \* CrawlLog.run_finished_at (-1 is None)
    logMessage,     \* CrawlLog.message
    details,        \* CrawlLogDetail rows of each CrawlLog, in id order
    crawlResults,   \* committed CrawlResult rows
    notificationLogs, \* committed NotificationLog rows
    pc,             \* position of each run_task invocation
    runTask,        \* task_id argument of each invocation
    local,          \* local variables and session state of each invocation
    notifyCount,    \* number of calls of _send_task_notifications per run
    payload,        \* payload_items handed to _send_task_notifications
    examined,       \* URLs scored by each run with the scores obtained
    fetched,        \* URLs each run called fetch_html on, in call order
    snapshotWriter, \* run whose commit stored the current snapshot (0: none)
    schedPc,        \* scheduler loop: "sleep", "launch", "caught", "stopped"
    schedQueue,     \* scheduled_task_ids not yet launched in this tick
    schedRun,       \* run the scheduler thread called last (0: none)
    stopEvent,      \* MonitorScheduler._stop_event is set
    registered,     \* keys of _RUNNING_TASKS
    stopSet,        \* tasks whose cancellation event is set
    stopReturn,     \* value the last request_stop_task call returned
    mail,           \* one email delivery: settings, connection attempts, result
    scoreCall,      \* one call of score_contents: arguments and result
    snapCall,       \* one build_snapshot / parse_snapshot round: input, result
    detailTable,    \* rows of crawl_log_details, in id order
    stream,         \* detail-stream reads: last response, poller's entries
    setup,          \* ensure_setup calls of the request threads, scheduler threads
    proxy,          \* ProxyConfigService: pool, cursor, lock, calling threads
    fetchCall       \* one call of fetch_html: transports tried, result

vars == <<now, taskWebsite, isActive, lastRunAt, lastStatus, snapshot,
          logStatus, logFinished, logMessage, details, crawlResults,
          notificationLogs, pc, runTask, local, notifyCount, payload,
          examined, fetched, snapshotWriter, schedPc, schedQueue, schedRun,
          stopEvent, registered, stopSet, stopReturn, mail, scoreCall,
          snapCall, detailTable, stream, setup, proxy, fetchCall>>

dbTaskVars == <<lastRunAt, lastStatus>>
schedVars == <<schedPc, schedQueue, schedRun, stopEvent>>
registryVars == <<registered, stopSet, stopReturn>>
envVars == <<now, taskWebsite, isActive>>
callVars == <<mail, scoreCall, snapCall, detailTable, stream, setup, proxy,
              fetchCall>>
\* everything the monitor itself keeps: rows, runs, scheduler, registry
monitorVars ==
    <<envVars, dbTaskVars, snapshot, logStatus, logFinished, logMessage,
      details, crawlResults, notificationLogs, pc, runTask, local,
      notifyCount, payload, examined, fetched, snapshotWriter, schedVars,
      registryVars>>

\* ------------------------------------------------------------------ helpers
SeqToSet(s) == {s[i] : i \in 1..Len(s)}

Detail(level, msg, arg) == [level |-> level, msg |-> msg, arg |-> arg]

EmptyLocal ==
    [prev |-> NoSnapshot, new_html |-> [links |-> {}, html |-> ""],
     todo |-> {}, cur |-> "", subpage_snapshots |-> <<>>,
     subpage_errors |-> <<>>, matched_results |-> <<>>, pending |-> {},
     exc |-> "none"]

NoMessage == [matches |-> 0, failed |-> <<>>, error |-> "none"]

InProgress(r) == pc[r] \notin {"idle", "done"}

TerminalStatus == {"success", "completed", "failed"}

\* compare_links: links of the new page absent from the stored main page
compare_links(old, new_html) ==
    IF ~old.present THEN new_html.links ELSE new_html.links \ old.links

\* build_snapshot(new_html, subpage_snapshots, main_title): main_html with
\* main_text = extract_body_text(main_html)
build_snapshot(new_html, subpage_snapshots) ==
    [present |-> TRUE, links |-> new_html.links, html |-> new_html.html,
     text |-> extract_body_text(new_html.html), subs |-> subpage_snapshots]

\* lines 873-875: the stored main_text, or the body text of the stored
\* main_html when main_text is empty
previous_text_to_compare_None(prev) ==
    IF ~prev.present THEN -1
    ELSE IF prev.text # 0 THEN prev.text ELSE extract_body_text(prev.html)
previous_text_to_compare(prev) ==
    IF prev.text # 0 THEN prev.text ELSE extract_body_text(prev.html)

\* score >= SIMILARITY_THRESHOLD
IsConfirmed_Strict(score) == score > SIMILARITY_THRESHOLD
IsConfirmed(score) == score >= SIMILARITY_THRESHOLD

\* matches = [(content, score) for content, score in scores if score >= T]
RECURSIVE MatchesFrom(_, _)
MatchesFrom(scores, i) ==
    IF i > Len(watch_contents) THEN <<>>
    ELSE LET c == watch_contents[i]
             rest == MatchesFrom(scores, i + 1)
         IN IF IsConfirmed(scores[c])
            THEN <<[content |-> c, score |-> scores[c]]>> \o rest
            ELSE rest

Matches(scores) == MatchesFrom(scores, 1)

\* max(matches, key=lambda item: item[1]): the first item of maximal score
RECURSIVE BestFrom(_, _, _)
BestFrom(matches, i, best) ==
    IF i > Len(matches) THEN best
    ELSE BestFrom(matches, i + 1,
                  IF matches[i].score > best.score THEN matches[i] ELSE best)

best_match(matches) == BestFrom(matches, 2, matches[1])

\* the score lists score_contents can return for a page, by phrase: no phrase
\* confirmed; both confirmed, the second one higher; both confirmed and equal
ScoreTables == {<<5, 5>>, <<6, 10>>, <<10, 10>>}

\* rows the next session.commit() of run r leaves in crawl_results
Committed(r) == crawlResults \cup local[r].pending

\* index of the entry of seq whose field f equals key, 0 when absent
IndexOfUrl(entries, url) ==
    IF \E i \in 1..Len(entries) : entries[i].url = url
    THEN CHOOSE i \in 1..Len(entries) : entries[i].url = url
    ELSE 0

IndexOfContent(matches_map, c) ==
    IF \E i \in 1..Len(matches_map) : matches_map[i].content = c
    THEN CHOOSE i \in 1..Len(matches_map) : matches_map[i].content = c
    ELSE 0

\* the loop over item["matches"] that fills entry["matches_map"]
RECURSIVE MergeMatches(_, _, _)
MergeMatches(matches_map, matches, j) ==
    IF j > Len(matches) THEN matches_map
    ELSE LET m == matches[j]
             k == IndexOfContent(matches_map, m.content)
             next == IF k = 0 THEN Append(matches_map, m)
                     ELSE IF m.score > matches_map[k].score
                          THEN [matches_map EXCEPT ![k].score = m.score]
                          ELSE matches_map
         IN MergeMatches(next, matches, j + 1)

\* the loop over matched_results that fills merged_payload, one entry per url
RECURSIVE MergePayload(_, _, _)
MergePayload(merged, matched_results, i) ==
    IF i > Len(matched_results) THEN merged
    ELSE LET item == matched_results[i]
             k == IndexOfUrl(merged, item.url)
             base == IF k = 0
                     THEN Append(merged, [url |-> item.url, matches |-> <<>>])
                     ELSE merged
             kk == IF k = 0 THEN Len(base) ELSE k
             next == [base EXCEPT ![kk].matches =
                          MergeMatches(base[kk].matches, item.matches, 1)]
         IN MergePayload(next, matched_results, i + 1)

payload_items(matched_results) == MergePayload(<<>>, matched_results, 1)

\* if matched_results: ... _send_task_notifications(...)
ShouldNotify_Always(r) == TRUE
ShouldNotify(r) == local[r].matched_results # <<>>

\* task.last_status = "success" if matched_results else "completed"
FinalStatus(r) ==
    IF local[r].matched_results # <<>> THEN "success" ELSE "completed"

\* log_entry.status = "failed" in the except block
HandlerLogStatus_Unset(r) == logStatus[r]
HandlerLogStatus(r) == "failed"

\* the two detail entries the except block appends
FailureDetails_Swapped(exc) ==
    <<Detail("error", "error_info", exc), Detail("error", "failed_rollback", "")>>
FailureDetails(exc) ==
    <<Detail("error", "failed_rollback", ""), Detail("error", "error_info", exc)>>

Site(r) == taskWebsite[runTask[r]]

\* no delivery started, no score_contents call made
NoMail ==
    [pc |-> "idle", args |-> <<>>, encryption_configured |-> TRUE,
     port |-> 0, use_tls |-> FALSE,
     use_ssl |-> FALSE, attempts |-> <<>>, result |-> "none"]

Init ==
    /\ now = 0
    /\ taskWebsite = [t \in Tasks |-> IF t = 3 THEN NoSite ELSE t]
    /\ isActive \in ActiveFlags
    /\ lastRunAt = [t \in Tasks |-> -1]
    /\ lastStatus = [t \in Tasks |-> "none"]
    /\ snapshot = [s \in {1, 2} |-> NoSnapshot]
    /\ logStatus = [r \in Runs |-> "none"]
    /\ logFinished = [r \in Runs |-> -1]
    /\ logMessage = [r \in Runs |-> NoMessage]
    /\ details = [r \in Runs |-> <<>>]
    /\ crawlResults = {}
    /\ notificationLogs = <<>>
    /\ pc = [r \in Runs |-> "idle"]
    /\ runTask = [r \in Runs |-> 0]
    /\ local = [r \in Runs |-> EmptyLocal]
    /\ notifyCount = [r \in Runs |-> 0]
    /\ payload = [r \in Runs |-> <<>>]
    /\ examined = [r \in Runs |-> {}]
    /\ fetched = [r \in Runs |-> <<>>]
    /\ snapshotWriter = [s \in {1, 2} |-> 0]
    /\ schedPc = "sleep"
    /\ schedQueue = <<>>
    /\ schedRun = 0
    /\ stopEvent = FALSE
    /\ registered = {}
    /\ stopSet = {}
    /\ stopReturn = "none"
    /\ mail = NoMail
    /\ scoreCall = [pc |-> "idle"]
    /\ snapCall = [pc |-> "idle"]
    /\ detailTable = <<>>
    \* no stream request made yet
    /\ stream =
          [response |-> [log_id |-> 0, after |-> -1, entries |-> {}],
           received |-> <<>>, batches |-> 0]
    \* ensure_setup never called: _setup_complete False, scheduler._thread None
    /\ setup =
          [pc |-> [t \in {1, 2} |-> "idle"], calls |-> [t \in {1, 2} |-> 0],
           complete |-> FALSE, initDbRuns |-> 0, startRuns |-> 0, thread |-> 0,
           loops |-> {}]
    \* ProxyConfigService after __init__ found no active proxy endpoint
    /\ proxy =
          [proxies |-> <<>>, index |-> 0, lock |-> 0,
           pc |-> [t \in {1, 2} |-> "idle"], loaded |-> [t \in {1, 2} |-> <<>>],
           result |-> [t \in {1, 2} |-> "none"], returned |-> <<>>, calls |-> 0,
           reloads |-> 0]
    \* fetch_html not called
    /\ fetchCall =
          [pc |-> "idle", url |-> "", installed |-> FALSE, render |-> "none",
           renders |-> 0, step |-> 1, idle_timeout |-> FALSE, gets |-> 0,
           get |-> "none",
           result |-> "none"]

\* ------------------------------------------------------------------ run_task
\* run_task lines 776-786: load the task, insert the CrawlLog (status
\* defaults to running), first detail entry
RunBegin(r) ==
    /\ pc[r] = "begin"
    /\ logStatus' = [logStatus EXCEPT ![r] = "running"]
    /\ details' = [details EXCEPT ![r] = <<Detail("info", "start", "")>>]
    /\ pc' = [pc EXCEPT ![r] = "prepare"]
    /\ UNCHANGED <<envVars, callVars, dbTaskVars, snapshot, logFinished, logMessage,
                   crawlResults, notificationLogs, runTask, local,
                   notifyCount, payload, examined, fetched, snapshotWriter,
                   schedVars, registryVars>>

\* lines 788-794: a task without website raises CrawlError; otherwise the
\* stored snapshot is parsed
Prepare(r) ==
    /\ pc[r] = "prepare"
    /\ IF Site(r) = NoSite
       THEN /\ pc' = [pc EXCEPT ![r] = "except"]
            /\ local' = [local EXCEPT ![r].exc = "no_website"]
            /\ UNCHANGED details
       ELSE /\ pc' = [pc EXCEPT ![r] = "fetch_main"]
            /\ local' = [local EXCEPT ![r].prev = snapshot[Site(r)]]
            /\ details' = [details EXCEPT
                              ![r] = Append(@, Detail("info", "prepare", ""))]
    /\ UNCHANGED <<envVars, callVars, dbTaskVars, snapshot, logStatus, logFinished,
                   logMessage, crawlResults, notificationLogs, runTask,
                   notifyCount, payload, examined, fetched,
                   snapshotWriter, schedVars, registryVars>>

\* line 795: fetch_html(website.url) raises
FetchMainFail(r) ==
    /\ pc[r] = "fetch_main"
    /\ fetched' = [fetched EXCEPT ![r] = Append(@, MainUrl)]
    /\ pc' = [pc EXCEPT ![r] = "except"]
    /\ local' = [local EXCEPT ![r].exc = "fetch_main"]
    /\ UNCHANGED <<envVars, callVars, dbTaskVars, snapshot, logStatus, logFinished,
                   logMessage, details, crawlResults, notificationLogs,
                   runTask, notifyCount, payload, examined,
                   snapshotWriter, schedVars, registryVars>>

\* lines 795-814 and 872-877: the main page arrives; subpage mode computes
\* the new links, single-page mode compares the flattened body text.  The
\* entry "main_title" stands for the title entry of lines 801-804 (info with
\* a title, warning without), "sub_title" for the one of lines 840-843.
FetchMainOk(r, page) ==
    /\ pc[r] = "fetch_main"
    /\ page \in MainPages(Site(r))
    /\ fetched' = [fetched EXCEPT ![r] = Append(@, MainUrl)]
    /\ LET head == <<Detail("info", "main_fetched", ""),
                     Detail("info", "main_title", "")>>
           new_links == compare_links(local[r].prev, page)
           has_changed == previous_text_to_compare(local[r].prev)
                              # extract_body_text(page.html)
       IN IF fetch_subpages(Site(r))
          THEN /\ details' = [details EXCEPT ![r] =
                     @ \o head \o <<Detail("info", "new_links", "")>>]
               /\ local' = [local EXCEPT ![r].new_html = page,
                                         ![r].todo = new_links]
               /\ pc' = [pc EXCEPT ![r] = "sublinks"]
          ELSE /\ details' = [details EXCEPT ![r] =
                     @ \o head \o
                     <<Detail("info", IF has_changed THEN "changed"
                                      ELSE "unchanged", "")>>]
               /\ local' = [local EXCEPT ![r].new_html = page]
               /\ pc' = [pc EXCEPT ![r] = IF has_changed THEN "score_main"
                                          ELSE "finalize"]
    /\ UNCHANGED <<envVars, callVars, dbTaskVars, snapshot, logStatus, logFinished,
                   logMessage, crawlResults, notificationLogs, runTask,
                   notifyCount, payload, examined, snapshotWriter,
                   schedVars, registryVars>>

\* lines 816-832, fetch_html(link) raises: the exception is caught, a
\* warning entry is added and the loop goes on with the next link
SubFetchFail_Abort(r, link) ==
    /\ pc[r] = "sublinks"
    /\ link \in local[r].todo
    /\ fetched' = [fetched EXCEPT ![r] = Append(@, link)]
    /\ details' = [details EXCEPT ![r] =
                      Append(@, Detail("info", "sub_fetching", link))]
    /\ crawlResults' = Committed(r)
    /\ local' = [local EXCEPT ![r].todo = @ \ {link}, ![r].pending = {},
                              ![r].exc = "fetch_sub"]
    /\ pc' = [pc EXCEPT ![r] = "except"]
    /\ UNCHANGED <<envVars, callVars, dbTaskVars, snapshot, logStatus, logFinished,
                   logMessage, notificationLogs, runTask, notifyCount, payload, examined, snapshotWriter, schedVars,
                   registryVars>>

SubFetchFail(r, link) ==
    /\ pc[r] = "sublinks"
    /\ link \in local[r].todo
    /\ fetched' = [fetched EXCEPT ![r] = Append(@, link)]
    /\ details' = [details EXCEPT ![r] =
                      @ \o <<Detail("info", "sub_fetching", link),
                             Detail("warning", "sub_failed", link)>>]
    /\ crawlResults' = Committed(r)
    /\ local' = [local EXCEPT ![r].todo = @ \ {link}, ![r].pending = {},
                              ![r].subpage_errors = Append(@, link)]
    /\ pc' = [pc EXCEPT ![r] = "sublinks"]
    /\ UNCHANGED <<envVars, callVars, dbTaskVars, snapshot, logStatus, logFinished,
                   logMessage, notificationLogs, runTask, notifyCount, payload, examined, snapshotWriter, schedVars,
                   registryVars>>

\* lines 816-827, fetch_html(link) returns: the page joins subpage_snapshots
SubFetchOk(r, link) ==
    /\ pc[r] = "sublinks"
    /\ link \in local[r].todo
    /\ fetched' = [fetched EXCEPT ![r] = Append(@, link)]
    /\ details' = [details EXCEPT ![r] =
                      @ \o <<Detail("info", "sub_fetching", link),
                             Detail("info", "sub_fetched", link)>>]
    /\ crawlResults' = Committed(r)
    /\ local' = [local EXCEPT ![r].todo = @ \ {link}, ![r].pending = {},
                              ![r].cur = link,
                              ![r].subpage_snapshots = Append(@, link)]
    /\ pc' = [pc EXCEPT ![r] = "score_sub"]
    /\ UNCHANGED <<envVars, callVars, dbTaskVars, snapshot, logStatus, logFinished,
                   logMessage, notificationLogs, runTask, notifyCount, payload, examined, snapshotWriter, schedVars,
                   registryVars>>

\* the CrawlResult row built from the matches of one URL
Result(r, url, matches) ==
    [run |-> r, n |-> Len(local[r].matched_results) + 1, url |-> url,
     content |-> best_match(matches).content,
     score |-> best_match(matches).score]

\* lines 833-871 (sub link) and 878-905 (main page): score the page against
\* the watch phrases; on a match add a detail entry (which commits the
\* session), then session.add the CrawlResult and extend matched_results
Score(r, url, scores, titleDetail, hitMsg, nextPc) ==
    /\ scores \in ScoreTables
    /\ examined' = [examined EXCEPT ![r] = @ \cup {[url |-> url, scores |-> scores]}]
    /\ LET matches == Matches(scores)
       IN IF matches # <<>>
          THEN /\ details' = [details EXCEPT ![r] =
                     @ \o titleDetail \o <<Detail("success", hitMsg, url)>>]
               /\ crawlResults' = Committed(r)
               /\ local' = [local EXCEPT
                     ![r].pending = {Result(r, url, matches)},
                     ![r].matched_results =
                         Append(@, [url |-> url, matches |-> matches])]
          ELSE /\ details' = [details EXCEPT ![r] = @ \o titleDetail]
               /\ crawlResults' = IF titleDetail # <<>> THEN Committed(r)
                                  ELSE crawlResults
               /\ local' = IF titleDetail # <<>>
                           THEN [local EXCEPT ![r].pending = {}]
                           ELSE local
    /\ pc' = [pc EXCEPT ![r] = nextPc]
    /\ UNCHANGED <<envVars, callVars, dbTaskVars, snapshot, logStatus, logFinished,
                   logMessage, notificationLogs, runTask, notifyCount, payload, fetched, snapshotWriter, schedVars,
                   registryVars>>

ScoreSubOk(r, scores) ==
    /\ pc[r] = "score_sub"
    /\ Score(r, local[r].cur, scores,
             <<Detail("info", "sub_title", local[r].cur)>>, "sub_hit",
             "sublinks")

ScoreMainOk(r, scores) ==
    /\ pc[r] = "score_main"
    /\ Score(r, MainUrl, scores, <<>>, "main_hit", "finalize")

\* score_contents raises (similarity backend); in the sub-link loop the
\* title entry of lines 840-843 is already written
ScoreFail(r) ==
    /\ pc[r] \in {"score_sub", "score_main"}
    /\ IF pc[r] = "score_sub"
       THEN /\ details' = [details EXCEPT ![r] =
                  Append(@, Detail("info", "sub_title", local[r].cur))]
            /\ crawlResults' = Committed(r)
            /\ local' = [local EXCEPT ![r].pending = {}, ![r].exc = "score"]
       ELSE /\ local' = [local EXCEPT ![r].exc = "score"]
            /\ UNCHANGED <<details, crawlResults>>
    /\ pc' = [pc EXCEPT ![r] = "except"]
    /\ UNCHANGED <<envVars, callVars, dbTaskVars, snapshot, logStatus, logFinished,
                   logMessage, notificationLogs, runTask, notifyCount, payload, examined, fetched, snapshotWriter,
                   schedVars, registryVars>>

\* lines 907-935: summary entry, new snapshot, task bookkeeping, terminal
\* status and message of the CrawlLog, commit
Finalize(r) ==
    /\ \/ pc[r] = "finalize"
       \/ pc[r] = "sublinks" /\ local[r].todo = {}
    /\ details' = [details EXCEPT ![r] =
          Append(@, IF local[r].matched_results # <<>>
                    THEN Detail("success", "found_matches", "")
                    ELSE Detail("info", "no_matches", ""))]
    /\ crawlResults' = Committed(r)
    /\ local' = [local EXCEPT ![r].pending = {}]
    /\ snapshot' = [snapshot EXCEPT ![Site(r)] =
          build_snapshot(local[r].new_html, local[r].subpage_snapshots)]
    /\ snapshotWriter' = [snapshotWriter EXCEPT ![Site(r)] = r]
    /\ lastRunAt' = [lastRunAt EXCEPT ![runTask[r]] = now]
    /\ lastStatus' = [lastStatus EXCEPT ![runTask[r]] = FinalStatus(r)]
    /\ logStatus' = [logStatus EXCEPT ![r] = FinalStatus(r)]
    /\ logFinished' = [logFinished EXCEPT ![r] = now]
    /\ logMessage' = [logMessage EXCEPT ![r] =
          [matches |-> Len(local[r].matched_results),
           failed |-> local[r].subpage_errors, error |-> "none"]]
    /\ pc' = [pc EXCEPT ![r] = IF ShouldNotify(r) THEN "notify" ELSE "done"]
    /\ UNCHANGED <<envVars, callVars, notificationLogs, runTask, notifyCount,
                   payload, examined, fetched, schedVars, registryVars>>

\* the outcomes of the send that _send_task_notifications handles itself:
\* sent, NotificationConfigError, any other exception
NotifyOutcomes == {"success", "config_error", "send_error"}

NotifyDetails(outcome) ==
    <<Detail("info", "notify_prepare", ""),
      IF outcome = "success"
      THEN Detail("success", "notify_sent", "")
      ELSE IF outcome = "config_error"
           THEN Detail("warning", "notify_config_missing", "")
           ELSE Detail("error", "notify_send_failed", "")>>

\* lines 937-981: merge the matches per URL and call
\* _send_task_notifications once; it records its outcome as detail entries
\* and one NotificationLog row
Notify(r, outcome) ==
    /\ pc[r] = "notify"
    /\ outcome \in NotifyOutcomes
    /\ notifyCount' = [notifyCount EXCEPT ![r] = @ + 1]
    /\ payload' = [payload EXCEPT ![r] = payload_items(local[r].matched_results)]
    /\ details' = [details EXCEPT ![r] = @ \o NotifyDetails(outcome)]
    /\ notificationLogs' = Append(notificationLogs,
          [run |-> r, task |-> runTask[r],
           channel |-> notification_method(runTask[r]),
           status |-> IF outcome = "success" THEN "success" ELSE "failed"])
    /\ pc' = [pc EXCEPT ![r] = "done"]
    /\ UNCHANGED <<envVars, callVars, dbTaskVars, snapshot, logStatus, logFinished,
                   logMessage, crawlResults, runTask, local,
                   examined, fetched, snapshotWriter, schedVars, registryVars>>

\* an exception leaves _send_task_notifications (a session operation of the
\* detail callback or of _record_notification_log fails)
NotifyRaise(r) ==
    /\ pc[r] = "notify"
    /\ notifyCount' = [notifyCount EXCEPT ![r] = @ + 1]
    /\ payload' = [payload EXCEPT ![r] = payload_items(local[r].matched_results)]
    /\ local' = [local EXCEPT ![r].exc = "notify"]
    /\ pc' = [pc EXCEPT ![r] = "except"]
    /\ UNCHANGED <<envVars, callVars, dbTaskVars, snapshot, logStatus, logFinished,
                   logMessage, details, crawlResults, notificationLogs,
                   runTask, examined, fetched, snapshotWriter,
                   schedVars, registryVars>>

\* lines 982-993: rollback, then the two error entries
HandlerDetails(r) ==
    /\ pc[r] = "except"
    /\ local' = [local EXCEPT ![r].pending = {}]
    /\ details' = [details EXCEPT ![r] = @ \o FailureDetails(local[r].exc)]
    /\ pc' = [pc EXCEPT ![r] = "except_final"]
    /\ UNCHANGED <<envVars, callVars, dbTaskVars, snapshot, logStatus, logFinished,
                   logMessage, crawlResults, notificationLogs, runTask,
                   notifyCount, payload, examined, fetched,
                   snapshotWriter, schedVars, registryVars>>

\* lines 995-1012: task and CrawlLog are marked failed and committed
HandlerFinal(r) ==
    /\ pc[r] = "except_final"
    /\ lastStatus' = [lastStatus EXCEPT ![runTask[r]] = "failed"]
    /\ lastRunAt' = [lastRunAt EXCEPT ![runTask[r]] = now]
    /\ logStatus' = [logStatus EXCEPT ![r] = HandlerLogStatus(r)]
    /\ logFinished' = [logFinished EXCEPT ![r] = now]
    /\ logMessage' = [logMessage EXCEPT ![r] =
          [matches |-> 0, failed |-> <<>>, error |-> local[r].exc]]
    /\ pc' = [pc EXCEPT ![r] = "done"]
    /\ UNCHANGED <<envVars, callVars, snapshot, details, crawlResults, notificationLogs,
                   runTask, local, notifyCount, payload, examined,
                   fetched, snapshotWriter, schedVars, registryVars>>

\* lines 982-1014 when a statement of the except block itself raises (the
\* rollback or one of its commits fails): the finally clause closes the
\* session and the exception leaves run_task.  In the scheduler thread it
\* unwinds the for loop of _process_tasks (scheduler.py:64-66) to the except
\* clause of _run, and the ids not yet launched are dropped with the frame.
HandlerRaise(r) ==
    /\ pc[r] \in {"except", "except_final"}
    /\ pc' = [pc EXCEPT ![r] = "done"]
    /\ local' = [local EXCEPT ![r].pending = {}]
    /\ IF schedRun = r /\ schedPc = "launch"
       THEN schedPc' = "caught" /\ schedQueue' = <<>>
       ELSE UNCHANGED <<schedPc, schedQueue>>
    /\ UNCHANGED <<envVars, callVars, dbTaskVars, snapshot, logStatus, logFinished,
                   logMessage, details, crawlResults, notificationLogs,
                   runTask, notifyCount, payload, examined, fetched,
                   snapshotWriter, schedRun, stopEvent, registryVars>>

\* ----------------------------------------------------------------- scheduler
\* timedelta(minutes=website.interval_minutes or 60)
Interval(s) ==
    IF interval_minutes(s) = 0 THEN DefaultIntervalMinutes
    ELSE interval_minutes(s)

\* _process_tasks lines 46-60: the task is active, has a website and has
\* never run or its interval has elapsed
IsDue_AnyTask(t) ==
    /\ taskWebsite[t] # NoSite
    /\ \/ lastRunAt[t] = -1
       \/ now - lastRunAt[t] >= Interval(taskWebsite[t])

IsDue(t) ==
    /\ isActive[t]
    /\ taskWebsite[t] # NoSite
    /\ \/ lastRunAt[t] = -1
       \/ now - lastRunAt[t] >= Interval(taskWebsite[t])

RECURSIVE Ascending(_)
Ascending(S) ==
    IF S = {} THEN <<>>
    ELSE LET m == CHOOSE x \in S : \A y \in S : x <= y
         IN <<m>> \o Ascending(S \ {m})

FreeRuns == {r \in Runs : pc[r] = "idle"}
NextRun == CHOOSE r \in FreeRuns : \A q \in FreeRuns : r <= q

\* run_task(task_id) is a plain call in the scheduler thread: the loop is
\* inside it until it returns
SchedulerBusy_Detached == FALSE
SchedulerBusy == schedRun # 0 /\ pc[schedRun] # "done"

\* _run line 36 and _process_tasks lines 44-62: the stop event is not set;
\* select the due tasks of this tick
Tick ==
    /\ schedPc = "sleep"
    /\ ~stopEvent
    /\ schedQueue' = Ascending({t \in Tasks : IsDue(t)})
    /\ schedPc' = "launch"
    /\ UNCHANGED <<envVars, callVars, dbTaskVars, snapshot, logStatus, logFinished,
                   logMessage, details, crawlResults, notificationLogs, pc,
                   runTask, local, notifyCount, payload, examined,
                   fetched, snapshotWriter, schedRun, stopEvent, registryVars>>

\* _run lines 37-40: _process_tasks raises while it selects the due tasks
\* (the query of lines 46-51 fails); the exception is caught and logged
TickFail_Escapes ==
    /\ schedPc = "sleep"
    /\ ~stopEvent
    /\ schedPc' = "stopped"
    /\ UNCHANGED <<envVars, callVars, dbTaskVars, snapshot, logStatus, logFinished,
                   logMessage, details, crawlResults, notificationLogs, pc,
                   runTask, local, notifyCount, payload, examined,
                   fetched, snapshotWriter, schedQueue, schedRun, stopEvent,
                   registryVars>>

TickFail ==
    /\ schedPc = "sleep"
    /\ ~stopEvent
    /\ schedPc' = "caught"
    /\ UNCHANGED <<envVars, callVars, dbTaskVars, snapshot, logStatus, logFinished,
                   logMessage, details, crawlResults, notificationLogs, pc,
                   runTask, local, notifyCount, payload, examined,
                   fetched, snapshotWriter, schedQueue, schedRun, stopEvent,
                   registryVars>>

\* lines 64-66: call run_task for the next scheduled id
SchedLaunch ==
    /\ schedPc = "launch"
    /\ schedQueue # <<>>
    /\ ~SchedulerBusy
    /\ FreeRuns # {}
    /\ pc' = [pc EXCEPT ![NextRun] = "begin"]
    /\ runTask' = [runTask EXCEPT ![NextRun] = Head(schedQueue)]
    /\ schedRun' = NextRun
    /\ schedQueue' = Tail(schedQueue)
    /\ UNCHANGED <<envVars, callVars, dbTaskVars, snapshot, logStatus, logFinished,
                   logMessage, details, crawlResults, notificationLogs, local,
                   notifyCount, payload, examined, fetched, snapshotWriter,
                   schedPc, stopEvent, registryVars>>

\* _run line 41: the tick is over (every scheduled id was run, or the
\* exception of the tick was logged), time.sleep(poll_interval)
SchedSleep ==
    /\ \/ schedPc = "launch" /\ schedQueue = <<>> /\ ~SchedulerBusy
       \/ schedPc = "caught"
    /\ schedPc' = "sleep"
    /\ UNCHANGED <<envVars, callVars, dbTaskVars, snapshot, logStatus, logFinished,
                   logMessage, details, crawlResults, notificationLogs, pc,
                   runTask, local, notifyCount, payload, examined,
                   fetched, snapshotWriter, schedQueue, schedRun, stopEvent,
                   registryVars>>

\* _run line 36: after the sleep the loop finds the stop event set and ends
SchedExit ==
    /\ schedPc = "sleep"
    /\ stopEvent
    /\ schedPc' = "stopped"
    /\ UNCHANGED <<envVars, callVars, dbTaskVars, snapshot, logStatus, logFinished,
                   logMessage, details, crawlResults, notificationLogs, pc,
                   runTask, local, notifyCount, payload, examined,
                   fetched, snapshotWriter, schedQueue, schedRun, stopEvent,
                   registryVars>>

\* MonitorScheduler.stop lines 29-30: set the stop event
stop ==
    /\ ~stopEvent
    /\ stopEvent' = TRUE
    /\ UNCHANGED <<envVars, callVars, dbTaskVars, snapshot, logStatus, logFinished,
                   logMessage, details, crawlResults, notificationLogs, pc,
                   runTask, local, notifyCount, payload, examined,
                   fetched, snapshotWriter, schedPc, schedQueue, schedRun,
                   registryVars>>

\* the wall clock
AdvanceClock(d) ==
    /\ d \in ClockSteps
    /\ now + d <= MaxTime
    /\ now' = now + d
    /\ UNCHANGED <<taskWebsite, isActive, callVars, dbTaskVars, snapshot, logStatus, logFinished,
                   logMessage, details, crawlResults, notificationLogs, pc,
                   runTask, local, notifyCount, payload, examined,
                   fetched, snapshotWriter, schedVars, registryVars>>

\* -------------------------------------------------------------------- web app
\* the query of run_task_now lines 909-913
HasRunningLog(t) == \E r \in Runs : runTask[r] = t /\ logStatus[r] = "running"

\* app.run_task_now: refuse when a running CrawlLog of the task exists,
\* otherwise start run_task on a new thread
run_task_now(t) ==
    /\ t \in RunNowTasks
    /\ ~HasRunningLog(t)
    /\ FreeRuns # {}
    /\ pc' = [pc EXCEPT ![NextRun] = "begin"]
    /\ runTask' = [runTask EXCEPT ![NextRun] = t]
    /\ UNCHANGED <<envVars, callVars, dbTaskVars, snapshot, logStatus, logFinished,
                   logMessage, details, crawlResults, notificationLogs, local,
                   notifyCount, payload, examined, fetched, snapshotWriter,
                   schedVars, registryVars>>

\* ------------------------------------------------- running-task registry
\* crawler._RUNNING_TASKS as the cancellation tests use it: task id -> event
is_task_running(t) == t \in registered

\* the value request_stop_task(t) returns
request_stop_result_Always(t) == TRUE
request_stop_result(t) == t \in registered

\* an entry for a task with a run in progress is put into the registry
RegisterRunning(t) ==
    /\ t \in Tasks \ registered
    /\ \E r \in Runs : runTask[r] = t /\ InProgress(r)
    /\ registered' = registered \cup {t}
    /\ UNCHANGED <<envVars, callVars, dbTaskVars, snapshot, logStatus, logFinished,
                   logMessage, details, crawlResults, notificationLogs, pc,
                   runTask, local, notifyCount, payload, examined,
                   fetched, snapshotWriter, schedVars, stopSet, stopReturn>>

\* the entry is dropped once no run of the task is in progress
UnregisterRunning(t) ==
    /\ t \in registered
    /\ ~\E r \in Runs : runTask[r] = t /\ InProgress(r)
    /\ registered' = registered \ {t}
    /\ stopSet' = stopSet \ {t}
    /\ UNCHANGED <<envVars, callVars, dbTaskVars, snapshot, logStatus, logFinished,
                   logMessage, details, crawlResults, notificationLogs, pc,
                   runTask, local, notifyCount, payload, examined,
                   fetched, snapshotWriter, schedVars, stopReturn>>

\* the registry as the cancellation tests drive it: _RUNNING_TASKS[t] = a
\* fresh event (test lines 27-29), _RUNNING_TASKS.pop(t, None) (lines 16-17)
RegistryPut(t) ==
    /\ t \in Tasks
    /\ registered' = registered \cup {t}
    /\ stopSet' = stopSet \ {t}
    /\ UNCHANGED <<envVars, callVars, dbTaskVars, snapshot, logStatus, logFinished,
                   logMessage, details, crawlResults, notificationLogs, pc,
                   runTask, local, notifyCount, payload, examined,
                   fetched, snapshotWriter, schedVars, stopReturn>>

RegistryPop(t) ==
    /\ t \in Tasks
    /\ registered' = registered \ {t}
    /\ stopSet' = stopSet \ {t}
    /\ UNCHANGED <<envVars, callVars, dbTaskVars, snapshot, logStatus, logFinished,
                   logMessage, details, crawlResults, notificationLogs, pc,
                   runTask, local, notifyCount, payload, examined,
                   fetched, snapshotWriter, schedVars, stopReturn>>

\* request_stop_task(t): set the event of a registered task and return
\* true; return false for a task that is not registered
request_stop_task(t) ==
    /\ t \in Tasks
    /\ IF request_stop_result(t)
       THEN /\ stopSet' = stopSet \cup {t}
            /\ stopReturn' = "true"
       ELSE /\ stopSet' = stopSet
            /\ stopReturn' = "false"
    /\ UNCHANGED <<envVars, callVars, dbTaskVars, snapshot, logStatus, logFinished,
                   logMessage, details, crawlResults, notificationLogs, pc,
                   runTask, local, notifyCount, payload, examined,
                   fetched, snapshotWriter, schedVars, registered>>

\* ------------------------------------------------------------ email delivery
\* SMTP ports of the settings (0: smtp_port not set)
Ports == {25, 465, 587}

\* _resolve_transport_options(port, encryption_enabled, ssl_override):
\* <<use STARTTLS, use implicit SSL>>; ssl_override is "none" (None),
\* "true" or "false"
_resolve_transport_options_NoOverride(port, encryption_enabled, ssl_override) ==
    IF ~encryption_enabled THEN <<FALSE, FALSE>>
    ELSE IF port = 465 THEN <<FALSE, TRUE>>
    ELSE <<TRUE, FALSE>>

_resolve_transport_options(port, encryption_enabled, ssl_override) ==
    IF ~encryption_enabled THEN <<FALSE, FALSE>>
    ELSE IF ssl_override # "none"
         THEN IF ssl_override = "true" THEN <<FALSE, TRUE>>
              ELSE <<TRUE, FALSE>>
         ELSE IF port = 465 THEN <<FALSE, TRUE>>
         ELSE <<TRUE, FALSE>>

\* the EmailSettings a delivery starts with; encryption_configured keeps the
\* encryption switch as the configuration has it (smtp_use_tls, SMTP_USE_TLS)
Settings(port, encryption_enabled, ssl_override, configured) ==
    LET options ==
            _resolve_transport_options(port, encryption_enabled, ssl_override)
    IN [pc |-> "deliver",
        args |-> <<port, encryption_enabled, ssl_override>>,
        encryption_configured |-> configured,
        port |-> port, use_tls |-> options[1], use_ssl |-> options[2],
        attempts |-> <<>>, result |-> "none"]

\* _load_email_settings lines 105-130 (configuration values): SMTP_PORT,
\* SMTP_USE_TLS and the optional SMTP_USE_SSL
LoadConfiguredSettings(port, use_tls_flag, use_ssl_override) ==
    /\ mail.pc = "idle"
    /\ port \in Ports
    /\ use_tls_flag \in BOOLEAN
    /\ use_ssl_override \in {"none", "true", "false"}
    /\ mail' = Settings(port, use_tls_flag, use_ssl_override, use_tls_flag)
    /\ UNCHANGED <<monitorVars, scoreCall, snapCall, detailTable, stream,
                   setup, proxy, fetchCall>>

\* _load_email_settings lines 81-103 (stored NotificationSetting):
\* smtp_use_tls None counts as enabled, smtp_port unset as 587, and port 465
\* enables encryption
LoadStoredSettings(smtp_port, smtp_use_tls) ==
    /\ mail.pc = "idle"
    /\ smtp_port \in Ports \cup {0}
    /\ smtp_use_tls \in {"none", "true", "false"}
    /\ LET enabled == smtp_use_tls # "false"
           port_value == IF smtp_port = 0 THEN 587 ELSE smtp_port
           encryption_enabled == IF ~enabled /\ port_value = 465 THEN TRUE
                                 ELSE enabled
       IN mail' = Settings(port_value, encryption_enabled, "none", enabled)
    /\ UNCHANGED <<monitorVars, scoreCall, snapCall, detailTable, stream,
                   setup, proxy, fetchCall>>

\* the connection a delivery opens first: smtplib.SMTP_SSL when use_ssl,
\* else smtplib.SMTP, upgraded by starttls when use_tls (lines 193-224)
FirstMode(m) ==
    IF m.use_ssl THEN "ssl" ELSE IF m.use_tls THEN "starttls" ELSE "plain"

Attempt(mode, port, outcome) == [mode |-> mode, port |-> port, outcome |-> outcome]

\* line 234: a delivery over implicit SSL re-raises, any other falls back
NeedsFallback_Always(m) == TRUE
NeedsFallback(m) == ~m.use_ssl

\* lines 204-226: connect, ehlo, starttls, login and sendmail go through
DeliverOk ==
    /\ mail.pc = "deliver"
    /\ mail' = [mail EXCEPT
          !.attempts = Append(@, Attempt(FirstMode(mail), mail.port, "ok")),
          !.result = "sent", !.pc = "done"]
    /\ UNCHANGED <<monitorVars, scoreCall, snapCall, detailTable, stream,
                   setup, proxy, fetchCall>>

\* lines 227-236: SMTPServerDisconnected during the first attempt
DeliverDropped ==
    /\ mail.pc = "deliver"
    /\ mail' = [mail EXCEPT
          !.attempts = Append(@, Attempt(FirstMode(mail), mail.port, "dropped")),
          !.result = IF NeedsFallback(mail) THEN "none" ELSE "disconnected",
          !.pc = IF NeedsFallback(mail) THEN "fallback" ELSE "done"]
    /\ UNCHANGED <<monitorVars, scoreCall, snapCall, detailTable, stream,
                   setup, proxy, fetchCall>>

\* any other exception of the first attempt passes the except clause of
\* line 227 and reaches the caller
DeliverError ==
    /\ mail.pc = "deliver"
    /\ mail' = [mail EXCEPT
          !.attempts = Append(@, Attempt(FirstMode(mail), mail.port, "error")),
          !.result = "error", !.pc = "done"]
    /\ UNCHANGED <<monitorVars, scoreCall, snapCall, detailTable, stream,
                   setup, proxy, fetchCall>>

\* lines 236-265: the fallback over smtplib.SMTP_SSL on the same host and
\* port; nothing catches what it raises
Fallback(outcome) ==
    /\ mail.pc = "fallback"
    /\ outcome \in {"ok", "dropped", "error"}
    /\ mail' = [mail EXCEPT
          !.attempts = Append(@, Attempt("ssl", mail.port, outcome)),
          !.result = IF outcome = "ok" THEN "sent"
                     ELSE IF outcome = "dropped" THEN "disconnected"
                     ELSE "error",
          !.pc = "done"]
    /\ UNCHANGED <<monitorVars, scoreCall, snapCall, detailTable, stream,
                   setup, proxy, fetchCall>>

EmailNext ==
    \/ \E port \in Ports, flag \in BOOLEAN, override \in {"none", "true", "false"} :
          LoadConfiguredSettings(port, flag, override)
    \/ \E smtp_port \in Ports \cup {0}, smtp_use_tls \in {"none", "true", "false"} :
          LoadStoredSettings(smtp_port, smtp_use_tls)
    \/ DeliverOk
    \/ DeliverDropped
    \/ DeliverError
    \/ \E outcome \in {"ok", "dropped", "error"} : Fallback(outcome)

EmailSpec == Init /\ [][EmailNext]_vars

\* ------------------------------------------------------------ score_contents
\* texts are sequences of characters: two letters, one of them in both
\* cases, a comma and a blank
Alphabet == {"a", "A", "b", ",", " "}

Texts(n) == UNION {[1..k -> Alphabet] : k \in 0..n}

\* str.lower
lower_Identity(text) == text
lower(text) == [i \in 1..Len(text) |-> IF text[i] = "A" THEN "a" ELSE text[i]]

\* str.strip
RECURSIVE strip(_)
strip(text) ==
    IF text = <<>> THEN text
    ELSE IF Head(text) = " " THEN strip(Tail(text))
    ELSE IF text[Len(text)] = " " THEN strip(SubSeq(text, 1, Len(text) - 1))
    ELSE text

\* the characters KEYWORD_SPLIT_PATTERN matches: commas, semicolons, blanks
IsSeparator(c) == c \in {",", " "}

\* KEYWORD_SPLIT_PATTERN.split(text) without its empty parts
RECURSIVE SplitFrom(_, _, _, _)
SplitFrom(text, i, part, parts) ==
    IF i > Len(text)
    THEN IF part = <<>> THEN parts ELSE Append(parts, part)
    ELSE IF IsSeparator(text[i])
         THEN SplitFrom(text, i + 1, <<>>,
                        IF part = <<>> THEN parts ELSE Append(parts, part))
         ELSE SplitFrom(text, i + 1, Append(part, text[i]), parts)

\* _extract_keywords: parts or [text.strip()]
_extract_keywords(text) ==
    LET parts == SplitFrom(text, 1, <<>>, <<>>)
    IN IF parts # <<>> THEN parts ELSE <<strip(text)>>

\* needle in haystack
Contains(haystack, needle) ==
    \E i \in 0..(Len(haystack) - Len(needle)) :
        SubSeq(haystack, i + 1, i + Len(needle)) = needle

\* lines 526-533: some keyword of the phrase occurs in the title or summary
KeywordMatched(text, normalized_title, normalized_summary) ==
    LET keywords == _extract_keywords(text)
    IN \E k \in 1..Len(keywords) :
          LET keyword_lower == lower(keywords[k])
          IN /\ keyword_lower # <<>>
             /\ \/ Contains(normalized_title, keyword_lower)
                \/ Contains(normalized_summary, keyword_lower)

\* lines 518-537: the loop over contents_list; content objects are named by
\* their position in the list
RECURSIVE FirstPass(_, _, _, _, _, _)
FirstPass(contents, title, summary, index, results, unmatched_contents) ==
    IF index > Len(contents)
    THEN [results |-> results, unmatched_contents |-> unmatched_contents]
    ELSE LET text == strip(contents[index])
             matched == text # <<>> /\ KeywordMatched(text, title, summary)
             score == IF matched THEN 10 ELSE 0
         IN FirstPass(contents, title, summary, index + 1,
                      Append(results, [content |-> index, score |-> score]),
                      IF text = <<>> \/ matched THEN unmatched_contents
                      ELSE Append(unmatched_contents, index))

\* lines 539-543: results[index] = (content, score) for the zipped scores
RECURSIVE SecondPass(_, _, _, _)
SecondPass(results, unmatched_contents, scores, k) ==
    IF k > Len(unmatched_contents) \/ k > Len(scores) THEN results
    ELSE SecondPass([results EXCEPT ![unmatched_contents[k]] =
                        [content |-> unmatched_contents[k], score |-> scores[k]]],
                    unmatched_contents, scores, k + 1)

\* the values similarity returns, in tenths
SimilarityScores == {0, 7}

\* the arguments of the calls
Titles == {<<>>, <<"a", "b">>, <<"A", ",">>}
Summaries == {<<>>, <<"b">>}
SecondPhrases == {<<"A">>, <<" ">>}
ContentLists ==
    {<<p>> : p \in Texts(MaxPhraseLen)}
        \cup {<<p, q>> : p \in Texts(MaxPhraseLen), q \in SecondPhrases}

\* score_contents(article_title, article_summary, contents); similarity
\* returns similarity_scores[k] for the k-th candidate
score_contents(article_title, article_summary, contents, similarity_scores) ==
    /\ scoreCall.pc = "idle"
    /\ LET normalized_title == lower(article_title)
           normalized_summary == lower(article_summary)
           first == FirstPass(contents, normalized_title, normalized_summary,
                              1, <<>>, <<>>)
           scores == SubSeq(similarity_scores, 1, Len(first.unmatched_contents))
       IN scoreCall' =
             [pc |-> "done", title |-> article_title,
              summary |-> article_summary, contents |-> contents,
              candidates |-> first.unmatched_contents,
              result |-> IF first.unmatched_contents # <<>>
                         THEN SecondPass(first.results,
                                         first.unmatched_contents, scores, 1)
                         ELSE first.results]
    /\ UNCHANGED <<monitorVars, mail, snapCall, detailTable, stream, setup,
                   proxy, fetchCall>>

ScoreNext ==
    /\ scoreCall.pc = "idle"
    /\ \E article_title \in Titles, article_summary \in Summaries,
          contents \in ContentLists,
          similarity_scores \in [1..2 -> SimilarityScores] :
             score_contents(article_title, article_summary, contents,
                            similarity_scores)

ScoreSpec == Init /\ [][ScoreNext]_vars

\* ------------------------------------------------- snapshot serialization
\* Python's None among texts: a value no text over an alphabet equals
None == <<"None">>

\* titles are texts of letters and blanks; documents are the abstract pages
\* "", "p", "q"; a url that is not a string is NoUrl
TitleTexts == UNION {[1..k -> {"t", " "}] : k \in 0..MaxTitleLen}
HtmlDocs == {"", "p", "q"}
NoUrl == "None"

\* _is_non_empty_text(value): bool(value and value.strip())
_is_non_empty_text(value) == value # None /\ strip(value) # <<>>

\* summarize_html(html)[0]: the main idea extracted from the document, ""
\* for a document without text
summarize_html_title(html) ==
    IF html = "p" THEN <<"t">> ELSE IF html = "q" THEN <<"t", "t">> ELSE <<>>

\* the loop body of build_snapshot: the serialized form of one subpage item
\* (an absent key reads as None through dict.get)
SerializeSubpage(item) ==
    [url |-> item.url, html |-> item.html,
     title |-> IF _is_non_empty_text(item.title) THEN strip(item.title)
               ELSE None,
     text |-> extract_body_text(item.html)]

\* serialized_subpages: the items with a string url, in the order given
RECURSIVE SerializeSubpages(_)
SerializeSubpages(subpages) ==
    IF subpages = <<>> THEN <<>>
    ELSE IF Head(subpages).url # NoUrl
         THEN <<SerializeSubpage(Head(subpages))>>
              \o SerializeSubpages(Tail(subpages))
         ELSE SerializeSubpages(Tail(subpages))

\* json.dumps(payload) of build_snapshot: a JSON document holding the
\* version-3 object
build_snapshot_json_KeepTitle(main_html, subpages, main_title) ==
    [kind |-> "json",
     data |-> [main_html |-> main_html, main_title |-> main_title,
               main_text |-> extract_body_text(main_html),
               subpages |-> [i \in 1..Len(subpages) |->
                               [url |-> subpages[i].url,
                                html |-> subpages[i].html,
                                title |-> subpages[i].title,
                                text |-> extract_body_text(subpages[i].html)]]]]
build_snapshot_json(main_html, subpages, main_title) ==
    [kind |-> "json",
     data |-> [main_html |-> main_html,
               main_title |-> IF _is_non_empty_text(main_title)
                              THEN strip(main_title) ELSE None,
               main_text |-> extract_body_text(main_html),
               subpages |-> SerializeSubpages(subpages)]]

\* _add_entry of parse_snapshot: the entry of one stored subpage
ParsedEntry(item) ==
    LET normalized_title ==
            IF item.title # None /\ strip(item.title) # <<>>
            THEN strip(item.title) ELSE summarize_html_title(item.html)
        normalized_text ==
            IF item.text # 0 THEN item.text ELSE extract_body_text(item.html)
    IN [url |-> item.url, html |-> item.html,
        title |-> IF normalized_title # <<>> THEN normalized_title ELSE None,
        text |-> normalized_text]

\* parse_snapshot(snapshot): main_html, entries, main_title, main_text.  A
\* snapshot that is not JSON is a legacy payload, the main html as stored.
parse_snapshot(stored) ==
    IF stored.kind = "json"
    THEN LET data == stored.data
         IN [main_html |-> data.main_html,
             entries |-> [i \in 1..Len(data.subpages) |->
                            ParsedEntry(data.subpages[i])],
             main_title |-> IF ~_is_non_empty_text(data.main_title)
                            THEN summarize_html_title(data.main_html)
                            ELSE data.main_title,
             main_text |-> IF data.main_text = 0
                           THEN extract_body_text(data.main_html)
                           ELSE data.main_text]
    ELSE [main_html |-> stored.data, entries |-> <<>>,
          main_title |-> IF stored.decodes
                         THEN summarize_html_title(stored.data) ELSE None,
          main_text |-> extract_body_text(stored.data)]

\* the subpage items handed to build_snapshot
SubpageItems ==
    [url : {"a", "b", NoUrl}, html : {"p", "q"},
     title : {None, <<"t">>, <<" ", "t">>}]
SubpageLists == UNION {[1..k -> SubpageItems] : k \in 0..MaxSubpages}

\* a call of build_snapshot
SnapshotBuild(main_html, subpages, main_title) ==
    /\ snapCall.pc = "idle"
    /\ snapCall' =
          [pc |-> "built", main_html |-> main_html, subpages |-> subpages,
           main_title |-> main_title,
           stored |-> build_snapshot_json(main_html, subpages, main_title)]
    /\ UNCHANGED <<monitorVars, mail, scoreCall, detailTable, stream, setup,
                   proxy, fetchCall>>

\* a legacy snapshot in the store: the bare html, JSON-encoded or not
SnapshotLegacy(html, decodes) ==
    /\ snapCall.pc = "idle"
    /\ html # ""
    /\ snapCall' =
          [pc |-> "legacy",
           stored |-> [kind |-> "raw", data |-> html, decodes |-> decodes]]
    /\ UNCHANGED <<monitorVars, mail, scoreCall, detailTable, stream, setup,
                   proxy, fetchCall>>

\* a call of parse_snapshot on the stored snapshot
SnapshotParse ==
    /\ snapCall.pc \in {"built", "legacy"}
    /\ snapCall' =
          [snapCall EXCEPT !.pc = "parsed"] @@
          [result |-> parse_snapshot(snapCall.stored),
           from |-> snapCall.pc]
    /\ UNCHANGED <<monitorVars, mail, scoreCall, detailTable, stream, setup,
                   proxy, fetchCall>>

SnapshotNext ==
    \/ /\ snapCall.pc = "idle"
       /\ \E main_html \in HtmlDocs, subpages \in SubpageLists,
             main_title \in TitleTexts \cup {None} :
                SnapshotBuild(main_html, subpages, main_title)
    \/ \E html \in HtmlDocs, decodes \in BOOLEAN : SnapshotLegacy(html, decodes)
    \/ SnapshotParse

SnapshotSpec == Init /\ [][SnapshotNext]_vars

\* ---------------------------------------------------------- detail stream
\* request.args.get("after", type=int) when the parameter is absent
NoAfter == -1
\* the CrawlLog rows that receive details; the incremental poller reads one
StreamLogs == {1, 2}
PolledLog == 1

\* CrawlLogDetail.id of the next INSERT: SQLite's rowid, one more than the
\* largest id in the table
NextDetailId ==
    IF detailTable = <<>> THEN 1 ELSE detailTable[Len(detailTable)].id + 1

\* run_task.add_detail: a CrawlLogDetail row added and committed
add_detail(log_id) ==
    /\ Len(detailTable) < MaxDetails
    /\ detailTable' = Append(detailTable, [id |-> NextDetailId, log_id |-> log_id])
    /\ UNCHANGED <<monitorVars, mail, scoreCall, snapCall, stream, setup,
                   proxy, fetchCall>>

\* the entries list of stream_task_log_entries: ids of the entries of the log
\* that pass the filter after_id is None or entry.id > after_id
EntriesAfter_Inclusive(log_id, after_id) ==
    {detailTable[i].id : i \in {j \in 1..Len(detailTable) :
        /\ detailTable[j].log_id = log_id
        /\ (after_id = NoAfter \/ detailTable[j].id >= after_id)}}
EntriesAfter(log_id, after_id) ==
    {detailTable[i].id : i \in {j \in 1..Len(detailTable) :
        /\ detailTable[j].log_id = log_id
        /\ (after_id = NoAfter \/ detailTable[j].id > after_id)}}

\* a request of /tasks/<task_id>/logs/<log_id>/entries with ?after=after_id
stream_task_log_entries(log_id, after_id) ==
    /\ stream' = [stream EXCEPT !.response =
                     [log_id |-> log_id, after |-> after_id,
                      entries |-> EntriesAfter(log_id, after_id)]]
    /\ UNCHANGED <<monitorVars, mail, scoreCall, snapCall, detailTable, setup,
                   proxy, fetchCall>>

\* the ids of a set in ascending order
RECURSIVE InIdOrder(_)
InIdOrder(ids) ==
    IF ids = {} THEN <<>>
    ELSE LET least == CHOOSE x \in ids : \A y \in ids : x <= y
         IN <<least>> \o InIdOrder(ids \ {least})

\* the after parameter of an incremental poller: the largest id it received
PollerAfter ==
    IF stream.received = <<>> THEN NoAfter
    ELSE CHOOSE x \in SeqToSet(stream.received) :
            \A y \in SeqToSet(stream.received) : y <= x

\* one request of the incremental poller of PolledLog
Poll ==
    /\ stream' = [stream EXCEPT
          !.received = @ \o InIdOrder(EntriesAfter(PolledLog, PollerAfter)),
          !.batches = IF EntriesAfter(PolledLog, PollerAfter) # {}
                      THEN @ + 1 ELSE @]
    /\ UNCHANGED <<monitorVars, mail, scoreCall, snapCall, detailTable, setup,
                   proxy, fetchCall>>

StreamNext ==
    \/ \E log_id \in StreamLogs : add_detail(log_id)
    \/ \E log_id \in StreamLogs, after_id \in {NoAfter} \cup (0..MaxDetails) :
          stream_task_log_entries(log_id, after_id)
    \/ Poll

StreamSpec == Init /\ [][StreamNext]_vars

\* ------------------------------------------------------------ ensure_setup
\* the threads that serve requests; each runs before_request -> ensure_setup
RequestThreads == {1, 2}

\* ensure_setup line 81: the test of _setup_complete; the call returns at
\* once when it is set
EnsureSetupEnter(t) ==
    /\ setup.pc[t] = "idle"
    /\ setup.calls[t] < MaxSetupCalls
    /\ setup' = IF setup.complete
                THEN [setup EXCEPT !.calls[t] = @ + 1]
                ELSE [setup EXCEPT !.pc[t] = "init_db"]
    /\ UNCHANGED <<monitorVars, mail, scoreCall, snapCall, detailTable,
                   stream, proxy, fetchCall>>

\* line 83: init_db()
EnsureSetupInitDb(t) ==
    /\ setup.pc[t] = "init_db"
    /\ setup' = [setup EXCEPT !.pc[t] = "start", !.initDbRuns = @ + 1]
    /\ UNCHANGED <<monitorVars, mail, scoreCall, snapCall, detailTable,
                   stream, proxy, fetchCall>>

\* scheduler.start lines 23-24: return when self._thread is alive
SchedulerStartCheck(t) ==
    /\ setup.pc[t] = "start"
    /\ setup' = [setup EXCEPT
          !.startRuns = @ + 1,
          !.pc[t] = IF setup.thread # 0 THEN "set_complete" ELSE "spawn"]
    /\ UNCHANGED <<monitorVars, mail, scoreCall, snapCall, detailTable,
                   stream, proxy, fetchCall>>

\* scheduler.start lines 25-26: a new thread running _run is stored in
\* self._thread and started
SchedulerStartSpawn(t) ==
    /\ setup.pc[t] = "spawn"
    /\ LET loop == Cardinality(setup.loops) + 1
       IN setup' = [setup EXCEPT !.pc[t] = "set_complete", !.thread = loop,
                                 !.loops = @ \cup {loop}]
    /\ UNCHANGED <<monitorVars, mail, scoreCall, snapCall, detailTable,
                   stream, proxy, fetchCall>>

\* ensure_setup line 85: _setup_complete = True, and the call returns
EnsureSetupComplete(t) ==
    /\ setup.pc[t] = "set_complete"
    /\ setup' = [setup EXCEPT !.pc[t] = "idle", !.complete = TRUE,
                              !.calls[t] = @ + 1]
    /\ UNCHANGED <<monitorVars, mail, scoreCall, snapCall, detailTable,
                   stream, proxy, fetchCall>>

SetupNext ==
    \E t \in RequestThreads :
        \/ EnsureSetupEnter(t)
        \/ EnsureSetupInitDb(t)
        \/ SchedulerStartCheck(t)
        \/ SchedulerStartSpawn(t)
        \/ EnsureSetupComplete(t)

SetupSpec == Init /\ [][SetupNext]_vars

\* ------------------------------------------------------ ProxyConfigService
ProxyThreads == {1, 2}

\* what reload can read from proxy_endpoints and shuffle: the active entries
\* in any order
RECURSIVE Orderings(_)
Orderings(S) ==
    IF S = {} THEN {<<>>}
    ELSE UNION {{<<e>> \o rest : rest \in Orderings(S \ {e})} : e \in S}
ProxyPools == UNION {Orderings(S) : S \in SUBSET {"x", "y"}}

\* reload lines 30-57: the active entries are read and shuffled before the
\* lock is taken
ReloadLoad(t, proxies) ==
    /\ proxy.pc[t] = "idle"
    /\ proxy.calls < MaxProxyCalls
    /\ proxy' = [proxy EXCEPT !.pc[t] = "reload_acquire", !.loaded[t] = proxies,
                              !.calls = @ + 1]
    /\ UNCHANGED <<monitorVars, mail, scoreCall, snapCall, detailTable,
                   stream, setup, fetchCall>>

\* reload line 58: with self._lock
ReloadAcquire(t) ==
    /\ proxy.pc[t] = "reload_acquire"
    /\ proxy.lock = 0
    /\ proxy' = [proxy EXCEPT !.pc[t] = "reload_proxies", !.lock = t]
    /\ UNCHANGED <<monitorVars, mail, scoreCall, snapCall, detailTable,
                   stream, setup, fetchCall>>

\* reload line 59: self._proxies = proxies
ReloadAssignProxies(t) ==
    /\ proxy.pc[t] = "reload_proxies"
    /\ proxy' = [proxy EXCEPT !.pc[t] = "reload_index",
                              !.proxies = proxy.loaded[t], !.returned = <<>>]
    /\ UNCHANGED <<monitorVars, mail, scoreCall, snapCall, detailTable,
                   stream, setup, fetchCall>>

\* reload line 60: self._index = 0
ReloadIndex_Keep == proxy.index
ReloadIndex == 0

\* reload lines 60-61: the cursor is reset and the lock released
ReloadAssignIndex(t) ==
    /\ proxy.pc[t] = "reload_index"
    /\ proxy' = [proxy EXCEPT !.pc[t] = "idle", !.index = ReloadIndex,
                              !.lock = 0, !.reloads = @ + 1]
    /\ UNCHANGED <<monitorVars, mail, scoreCall, snapCall, detailTable,
                   stream, setup, fetchCall>>

\* get_next_proxy line 67: with self._lock
GetAcquire(t) ==
    /\ proxy.pc[t] = "idle"
    /\ proxy.calls < MaxProxyCalls
    /\ proxy.lock = 0
    /\ proxy' = [proxy EXCEPT !.pc[t] = "get_read", !.lock = t,
                              !.calls = @ + 1]
    /\ UNCHANGED <<monitorVars, mail, scoreCall, snapCall, detailTable,
                   stream, setup, fetchCall>>

\* get_next_proxy lines 68-70: None for an empty pool, else the entry under
\* the cursor (an IndexError when the cursor is outside the pool)
GetRead(t) ==
    /\ proxy.pc[t] = "get_read"
    /\ proxy' =
          IF proxy.proxies = <<>>
          THEN [proxy EXCEPT !.pc[t] = "idle", !.lock = 0,
                             !.result[t] = "None"]
          ELSE IF proxy.index >= Len(proxy.proxies)
          THEN [proxy EXCEPT !.pc[t] = "idle", !.lock = 0,
                             !.result[t] = "IndexError"]
          ELSE [proxy EXCEPT !.pc[t] = "get_advance",
                             !.result[t] = proxy.proxies[proxy.index + 1]]
    /\ UNCHANGED <<monitorVars, mail, scoreCall, snapCall, detailTable,
                   stream, setup, fetchCall>>

\* get_next_proxy lines 71-72: the cursor advances modulo the pool size, the
\* entry is returned and the lock released
GetAdvance(t) ==
    /\ proxy.pc[t] = "get_advance"
    /\ proxy' = [proxy EXCEPT
          !.pc[t] = "idle", !.lock = 0,
          !.index = (proxy.index + 1) % Len(proxy.proxies),
          !.returned = Append(@, proxy.result[t])]
    /\ UNCHANGED <<monitorVars, mail, scoreCall, snapCall, detailTable,
                   stream, setup, fetchCall>>

ProxyNext ==
    \E t \in ProxyThreads :
        \/ \E proxies \in ProxyPools : ReloadLoad(t, proxies)
        \/ ReloadAcquire(t)
        \/ ReloadAssignProxies(t)
        \/ ReloadAssignIndex(t)
        \/ GetAcquire(t)
        \/ GetRead(t)
        \/ GetAdvance(t)

ProxySpec == Init /\ [][ProxyNext]_vars

\* -------------------------------------------------------------- fetch_html
\* the steps of the render transport, lines 238-251 (the wait for networkidle
\* has its own except clause)
RenderSteps == <<"launch", "goto", "networkidle", "load", "content">>

\* lines 252-257: the except clauses of fetch_html that lead to
\* _fetch_html_with_requests
FallsBack_Any(outcome) == outcome # "ok"
FallsBack(outcome) == outcome \in {"timeout", "error"}

\* fetch_html lines 225-234: the import of playwright; ImportError leads to
\* _fetch_html_with_requests at once
FetchStart(url, installed) ==
    /\ fetchCall.pc = "idle"
    /\ fetchCall' = [fetchCall EXCEPT
          !.pc = IF installed THEN "render" ELSE "get",
          !.url = url, !.installed = installed,
          !.render = IF installed THEN "started" ELSE "none",
          !.renders = IF installed THEN @ + 1 ELSE @]
    /\ UNCHANGED <<monitorVars, mail, scoreCall, snapCall, detailTable,
                   stream, setup, proxy>>

\* one step of lines 238-251, which ends normally ("ok"), with
\* PlaywrightTimeoutError ("timeout"), with another PlaywrightError ("error")
\* or with an exception that is no PlaywrightError ("other").
\* PlaywrightTimeoutError from the wait for
\* networkidle is logged and the render goes on; page.content() ends the
\* render and fetch_html returns its html; any other exception leaves the
\* with block, to the except clauses when it is a PlaywrightError.
RenderStep(outcome) ==
    /\ fetchCall.pc = "render"
    /\ LET step == RenderSteps[fetchCall.step]
           swallowed == step = "networkidle" /\ outcome = "timeout"
       IN fetchCall' =
             IF outcome = "ok" \/ swallowed
             THEN IF step = "content"
                  THEN [fetchCall EXCEPT !.pc = "done", !.render = "ok",
                                         !.result = "render_html"]
                  ELSE [fetchCall EXCEPT !.step = @ + 1,
                           !.idle_timeout = @ \/ swallowed]
             ELSE IF FallsBack(outcome)
             THEN [fetchCall EXCEPT !.pc = "get", !.render = outcome]
             ELSE [fetchCall EXCEPT !.pc = "done", !.render = outcome,
                                    !.result = "raised"]
    /\ UNCHANGED <<monitorVars, mail, scoreCall, snapCall, detailTable,
                   stream, setup, proxy>>

\* _fetch_html_with_requests lines 207-221: one requests.get, which ends
\* with a response ("ok"), an HTTP error status or an exception of requests;
\* an HTTP error status raises CrawlError, the exception passes through
FetchGet(outcome) ==
    /\ fetchCall.pc = "get"
    /\ fetchCall' = [fetchCall EXCEPT
          !.pc = "done", !.gets = @ + 1, !.get = outcome,
          !.result = IF outcome = "ok" THEN "response_text"
                     ELSE IF outcome = "http_error" THEN "CrawlError"
                     ELSE "raised"]
    /\ UNCHANGED <<monitorVars, mail, scoreCall, snapCall, detailTable,
                   stream, setup, proxy>>

FetchNext ==
    \/ \E url \in Links \cup {MainUrl}, installed \in BOOLEAN :
          FetchStart(url, installed)
    \/ \E outcome \in {"ok", "timeout", "error", "other"} : RenderStep(outcome)
    \/ \E outcome \in {"ok", "http_error", "exception"} : FetchGet(outcome)

FetchSpec == Init /\ [][FetchNext]_vars

\* ------------------------------------------------------------ specifications
RunStep(r) ==
    \/ RunBegin(r)
    \/ Prepare(r)
    \/ FetchMainFail(r)
    \/ \E page \in MainPages(1) \cup MainPages(2) : FetchMainOk(r, page)
    \/ \E link \in Links : SubFetchFail(r, link)
    \/ \E link \in Links : SubFetchOk(r, link)
    \/ \E scores \in ScoreTables : ScoreSubOk(r, scores)
    \/ \E scores \in ScoreTables : ScoreMainOk(r, scores)
    \/ ScoreFail(r)
    \/ Finalize(r)
    \/ \E outcome \in NotifyOutcomes : Notify(r, outcome)
    \/ NotifyRaise(r)
    \/ HandlerDetails(r)
    \/ HandlerFinal(r)

SchedStep ==
    \/ Tick
    \/ SchedLaunch
    \/ SchedSleep

RegistryStep ==
    \/ \E t \in Tasks : RegisterRunning(t)
    \/ \E t \in Tasks : UnregisterRunning(t)
    \/ \E t \in Tasks : request_stop_task(t)

\* scheduler-launched runs only: one scheduler loop, no run-now request
SchedNext ==
    \/ \E r \in Runs : RunStep(r)
    \/ SchedStep
    \/ \E d \in ClockSteps : AdvanceClock(d)

SchedSpec == Init /\ [][SchedNext]_vars

\* scheduler-launched runs and the running-task registry
CancelNext ==
    \/ SchedNext
    \/ RegistryStep

CancelSpec == Init /\ [][CancelNext]_vars

\* the scheduler loop with failing ticks and MonitorScheduler.stop
LoopNext ==
    \/ SchedNext
    \/ TickFail
    \/ SchedExit
    \/ stop

LoopSpec == Init /\ [][LoopNext]_vars

\* the scheduler with runs whose except block can fail as well
RaiseNext ==
    \/ SchedNext
    \/ \E r \in Runs : HandlerRaise(r)

RaiseSpec == Init /\ [][RaiseNext]_vars

\* the running-task registry on its own, driven as its tests drive it
RegistryNext ==
    \/ \E t \in Tasks : RegistryPut(t)
    \/ \E t \in Tasks : RegistryPop(t)
    \/ \E t \in Tasks : request_stop_task(t)

RegistrySpec == Init /\ [][RegistryNext]_vars

\* the scheduler loop together with run-now requests of the web application
Next ==
    \/ \E r \in Runs : RunStep(r)
    \/ SchedStep
    \/ \E d \in ClockSteps : AdvanceClock(d)
    \/ \E t \in RunNowTasks : run_task_now(t)

Spec == Init /\ [][Next]_vars

\* -------------------------------------------------------------------- claims
RunningLogs(t) == {r \in Runs : runTask[r] = t /\ logStatus[r] = "running"}

\* C1: in every reachable state every task has at most one CrawlLog in
\* status running, whatever the interleaving of scheduler ticks and run-now
\* requests.
CE_C1 == \A t \in Tasks : Cardinality(RunningLogs(t)) <= 1

CE_C4 ==
    [][\A r \in Runs :
          (InProgress(r) /\ is_task_running(runTask[r])
                /\ runTask[r] \in stopSet /\ Len(fetched[r]) >= 1)
            => /\ fetched'[r] = fetched[r]
               /\ logStatus'[r] \in {"running", "failed"}
               /\ snapshot' = snapshot]_vars

\* the terminal status the outcome of a run calls for
OutcomeStatus(exc, matched_results) ==
    IF exc # "none" THEN "failed"
    ELSE IF matched_results # <<>> THEN "success" ELSE "completed"

Returns(r) == pc[r] # "done" /\ pc'[r] = "done"

\* C5: a CrawlLog starts as running; when run_task returns its status is
\* failed iff an exception aborted the run, success iff it ran clean with a
\* match, completed iff it ran clean without one, and the task's last_status
\* equals that status.
CE_C5 ==
    [][\A r \in Runs :
          /\ (pc[r] = "begin" /\ pc'[r] # "begin") => logStatus'[r] = "running"
          /\ Returns(r) =>
                /\ logStatus'[r] =
                      OutcomeStatus(local'[r].exc, local'[r].matched_results)
                /\ lastStatus'[runTask[r]] = logStatus'[r]]_vars

\* C6: a run whose CrawlLog ends failed has not replaced the stored
\* snapshot; a run that ends success or completed has stored the snapshot
\* built from its own fetches.
CE_C6 ==
    \A r \in Runs :
        pc[r] = "done" =>
            /\ logStatus[r] = "failed" =>
                  \A s \in {1, 2} : snapshotWriter[s] # r
            /\ (logStatus[r] # "failed" /\ snapshotWriter[Site(r)] = r) =>
                  snapshot[Site(r)] =
                      build_snapshot(local[r].new_html,
                                     local[r].subpage_snapshots)

HasDetail(r, d) == \E i \in 1..Len(details[r]) : details[r][i] = d

\* C8: in subpage mode every failed sub-link fetch leaves a warning entry and
\* never is the reason a run fails; a run that ends success or completed has
\* fetched every new link and lists the failed ones in its message.
Thm_C8 ==
    \A r \in Runs :
        /\ \A link \in SeqToSet(local[r].subpage_errors) :
              HasDetail(r, Detail("warning", "sub_failed", link))
        /\ (logStatus[r] = "failed" /\ pc[r] = "done") =>
              local[r].exc \in {"no_website", "fetch_main", "score", "notify"}
        /\ (pc[r] = "done" /\ logStatus[r] \in {"success", "completed"}
                /\ fetch_subpages(Site(r))) =>
              /\ SeqToSet(fetched[r]) =
                    {MainUrl} \cup compare_links(local[r].prev, local[r].new_html)
              /\ logMessage[r].failed = local[r].subpage_errors

Wit_C8 ==
    \E r \in Runs :
        /\ pc[r] = "done"
        /\ logStatus[r] \in {"success", "completed"}
        /\ Len(fetched[r]) = 3
        /\ local[r].subpage_errors = <<fetched[r][2]>>
        /\ logMessage[r].failed = <<fetched[r][2]>>

MatchedUrls(r) ==
    {local[r].matched_results[i].url : i \in 1..Len(local[r].matched_results)}

\* C9: _send_task_notifications is called at most once per run: once, with
\* one payload entry per distinct matched URL, when the finalized run has
\* matches, and never when it has none.
Thm_C9 ==
    \A r \in Runs :
        /\ notifyCount[r] <= 1
        /\ local[r].matched_results = <<>> => notifyCount[r] = 0
        /\ notifyCount[r] = 1 =>
              /\ logFinished[r] # -1
              /\ {payload[r][i].url : i \in 1..Len(payload[r])} = MatchedUrls(r)
              /\ Len(payload[r]) = Cardinality(MatchedUrls(r))
        /\ (pc[r] = "done" /\ local[r].matched_results # <<>>
                /\ local[r].exc \in {"none", "notify"}) => notifyCount[r] = 1

Wit_C9 ==
    \E r \in Runs :
        pc[r] = "done" /\ notifyCount[r] = 1 /\ Len(payload[r]) = 2

ConfirmedPhrases(scores) ==
    {c \in SeqToSet(watch_contents) : scores[c] >= SIMILARITY_THRESHOLD}

RowsOf(r, url) == {x \in crawlResults : x.run = r /\ x.url = url}

\* C10: when run_task has returned, each URL it scored has a CrawlResult row
\* iff some phrase scored at least 0.6, has at most one row, the row carries
\* a confirmed phrase of highest score, and the payload entry of the URL
\* lists exactly the confirmed phrases.
Thm_C10 ==
    \A r \in Runs :
        pc[r] = "done" =>
            /\ \A x \in crawlResults :
                  x.run = r => \E e \in examined[r] : e.url = x.url
            /\ \A e \in examined[r] :
                  /\ (ConfirmedPhrases(e.scores) # {}) <=> (RowsOf(r, e.url) # {})
                  /\ Cardinality(RowsOf(r, e.url)) <= 1
                  /\ \A x \in RowsOf(r, e.url) :
                        /\ x.content \in ConfirmedPhrases(e.scores)
                        /\ x.score = e.scores[x.content]
                        /\ \A c \in ConfirmedPhrases(e.scores) :
                              e.scores[c] <= x.score
                  /\ \A i \in 1..Len(payload[r]) :
                        payload[r][i].url = e.url =>
                            {payload[r][i].matches[j].content :
                                 j \in 1..Len(payload[r][i].matches)}
                              = ConfirmedPhrases(e.scores)

Wit_C10 ==
    \E r \in Runs :
        /\ pc[r] = "done"
        /\ notifyCount[r] = 1
        /\ \E e \in examined[r] :
              /\ e.scores = <<6, 10>>
              /\ \E x \in RowsOf(r, e.url) : x.content = 2 /\ x.score = 10

\* how often task t occurs in a list of task ids
Occurrences(t, ids) == Cardinality({i \in 1..Len(ids) : ids[i] = t})

\* the tasks a tick has to launch: active, with a site, and never run or
\* last run at least the site's interval ago (60 minutes when unset)
DueAtTick(t) ==
    /\ isActive[t]
    /\ taskWebsite[t] # NoSite
    /\ \/ lastRunAt[t] = -1
       \/ now - lastRunAt[t] >=
             (IF interval_minutes(taskWebsite[t]) = 0 THEN 60
              ELSE interval_minutes(taskWebsite[t]))

Thm_C12 ==
    [][/\ (schedPc = "caught" /\ schedPc' # "caught") => schedPc' = "sleep"
       /\ (schedPc # "caught" /\ schedPc' = "caught") =>
              (schedPc = "sleep" /\ ~stopEvent)
       /\ (schedPc # "stopped" /\ schedPc' = "stopped") =>
              (schedPc = "sleep" /\ stopEvent)
       /\ schedPc = "stopped" => schedPc' = "stopped"
       /\ (schedPc = "sleep" /\ ~stopEvent) => ENABLED Tick]_vars

Wit_C12 ==
    /\ schedPc = "caught"
    /\ ~stopEvent
    /\ \E r \in Runs : pc[r] = "done"

\* C13: a run in progress holds back neither the launch of the other
\* scheduled tasks of the tick nor the end of the tick.
CE_C13 ==
    /\ (schedPc = "launch" /\ schedQueue # <<>> /\ FreeRuns # {}) =>
          ENABLED SchedLaunch
    /\ (schedPc = "launch" /\ schedQueue = <<>>) => ENABLED SchedSleep

\* C14: request_stop_task(t) returns true exactly when t is a key of the
\* registry and then sets the event of t; for an unregistered t it returns
\* false and leaves the registry and every event as they are;
\* is_task_running(t) tells whether t is a key of the registry.
Thm_C14 ==
    [][\A t \in Tasks :
          /\ is_task_running(t) <=> (t \in registered)
          /\ request_stop_task(t) =>
                /\ (stopReturn' = "true") <=> (t \in registered)
                /\ (stopReturn' = "false") <=> (t \notin registered)
                /\ t \in registered =>
                      (stopSet' = stopSet \cup {t} /\ registered' = registered)
                /\ t \notin registered =>
                      (stopSet' = stopSet /\ registered' = registered)]_vars

Wit_C14 ==
    /\ stopReturn = "false"
    /\ \E t \in Tasks : t \in registered /\ t \in stopSet
    /\ \E t \in Tasks : t \notin registered

\* the NotificationLog rows written by the notifier call of run r
LogsOf(r) == {i \in 1..Len(notificationLogs) : notificationLogs[i].run = r}

\* C15: every call of _send_task_notifications has left exactly one
\* NotificationLog row; the row carries the channel of the task and has
\* status success exactly when the send went through.
CE_C15 ==
    \A r \in Runs :
        pc[r] # "notify" =>
            /\ Cardinality(LogsOf(r)) = notifyCount[r]
            /\ \A i \in LogsOf(r) :
                  /\ notificationLogs[i].channel = notification_method(runTask[r])
                  /\ (notificationLogs[i].status = "success") <=>
                        HasDetail(r, Detail("success", "notify_sent", ""))

\* C16: a delivery makes one connection attempt, and a second one exactly
\* when the first did not use implicit SSL and was dropped by the server:
\* the second uses implicit SSL on the same port, its failure reaches the
\* caller, and a first attempt over STARTTLS that is dropped always gets it.
Thm_C16 ==
    LET a == mail.attempts
    IN /\ Len(a) <= 2
       /\ Len(a) = 2 =>
             /\ a[1].mode # "ssl"
             /\ a[1].outcome = "dropped"
             /\ a[2].mode = "ssl"
             /\ a[2].port = a[1].port
       /\ mail.pc = "done" =>
             /\ (a[1].mode = "starttls" /\ a[1].outcome = "dropped") => Len(a) = 2
             /\ a[1].mode = "ssl" => Len(a) = 1
             /\ a[1].outcome # "dropped" => Len(a) = 1
             /\ a[Len(a)].outcome = "dropped" => mail.result = "disconnected"
             /\ a[Len(a)].outcome = "error" => mail.result = "error"
             /\ a[Len(a)].outcome = "ok" => mail.result = "sent"

Wit_C16 ==
    /\ mail.pc = "done"
    /\ Len(mail.attempts) = 2
    /\ mail.attempts[1].mode = "starttls"
    /\ mail.attempts[2].outcome = "dropped"
    /\ mail.result = "disconnected"

\* C17: _resolve_transport_options selects nothing when encryption is
\* disabled, else what the override says, else implicit SSL for port 465 and
\* STARTTLS for every other port, and never both.
Thm_C17 ==
    mail.pc # "idle" =>
        LET port == mail.args[1]
            enabled == mail.args[2]
            override == mail.args[3]
            starttls == mail.use_tls
            ssl == mail.use_ssl
        IN /\ ~(starttls /\ ssl)
           /\ ~enabled => (~starttls /\ ~ssl)
           /\ (enabled /\ override = "true") => (~starttls /\ ssl)
           /\ (enabled /\ override = "false") => (starttls /\ ~ssl)
           /\ (enabled /\ override = "none" /\ port = 465) => (~starttls /\ ssl)
           /\ (enabled /\ override = "none" /\ port # 465) => (starttls /\ ~ssl)

Wit_C17 ==
    /\ mail.pc # "idle"
    /\ mail.args = <<465, TRUE, "false">>
    /\ mail.use_tls
    /\ ~mail.use_ssl

\* upper and lower case of a letter count as the same character
SameCharacter(x, y) == x = y \/ {x, y} = {"a", "A"}

\* keyword text[from..to] occurs in target, whatever the case
OccursIn(text, from, to, target) ==
    \E at \in 0..(Len(target) - (to - from + 1)) :
        \A j \in 0..(to - from) : SameCharacter(target[at + j + 1], text[from + j])

\* text[from..to] is a keyword of the phrase: a longest stretch without a
\* comma, semicolon or blank
IsKeyword(text, from, to) ==
    /\ from <= to
    /\ \A j \in from..to : text[j] \notin {",", " "}
    /\ from = 1 \/ text[from - 1] \in {",", " "}
    /\ to = Len(text) \/ text[to + 1] \in {",", " "}

HasKeywordHit(text, title, summary) ==
    \E from, to \in 1..Len(text) :
        /\ IsKeyword(text, from, to)
        /\ OccursIn(text, from, to, title) \/ OccursIn(text, from, to, summary)

\* C18: score_contents returns one pair per watch phrase, in input order; a
\* phrase with a keyword that occurs in the title or in the summary, in
\* whatever case, has score 1.0; no such phrase is handed to similarity.
Thm_C18 ==
    scoreCall.pc = "done" =>
        LET contents == scoreCall.contents
            result == scoreCall.result
        IN /\ Len(result) = Len(contents)
           /\ \A i \in 1..Len(contents) :
                 /\ result[i].content = i
                 /\ HasKeywordHit(contents[i], scoreCall.title, scoreCall.summary)
                       => /\ result[i].score = 10
                          /\ i \notin SeqToSet(scoreCall.candidates)

Wit_C18 ==
    /\ scoreCall.pc = "done"
    /\ scoreCall.contents = <<<<"b", ",", "A">>, <<"A">>>>
    /\ scoreCall.title = <<"a", "b">>
    /\ scoreCall.result = <<[content |-> 1, score |-> 10],
                            [content |-> 2, score |-> 10]>>

\* two documents with the same flattened body text
SameBodyText(h1, h2) == h1 = h2 \/ {h1, h2} = {"p", "p_ws"}

\* run r fetched the main page of a single-page site that had a snapshot
SinglePageRerun(r) ==
    /\ runTask[r] # 0
    /\ Site(r) # NoSite
    /\ ~fetch_subpages(Site(r))
    /\ local[r].prev.present
    /\ local[r].new_html.html # ""

\* C19: in single-page mode with a stored snapshot a run reports a change
\* exactly when the body text of the fetched page differs from the body text
\* of the stored page; without a change it scores nothing, stores no
\* CrawlResult, sends no notification and ends completed.
Thm_C19 ==
    \A r \in Runs :
        SinglePageRerun(r) =>
            LET same == SameBodyText(local[r].prev.html, local[r].new_html.html)
            IN /\ HasDetail(r, Detail("info", "changed", "")) <=> ~same
               /\ HasDetail(r, Detail("info", "unchanged", "")) <=> same
               /\ same =>
                     /\ examined[r] = {}
                     /\ \A x \in Committed(r) : x.run # r
                     /\ notifyCount[r] = 0
                     /\ local[r].exc = "none"
                     /\ pc[r] = "done" => logStatus[r] = "completed"

Wit_C19 ==
    \E r, q \in Runs :
        /\ q # r
        /\ runTask[q] = runTask[r]
        /\ logStatus[q] = "success"
        /\ local[q].new_html.html = "p"
        /\ SinglePageRerun(r)
        /\ local[r].prev.html = "p"
        /\ local[r].new_html.html = "p_ws"
        /\ pc[r] = "done"
        /\ logStatus[r] = "completed"

\* the sub-links run r called fetch_html on
Crawled(r) == SeqToSet(fetched[r]) \ {MainUrl}

\* the runs of the site of r that ended success or completed before r began
\* (the scheduler thread makes its run_task calls one after the other, in
\* the order of their indices)
SuccessfulBefore(r) ==
    {q \in Runs : q < r /\ runTask[q] = runTask[r] /\ pc[q] = "done"
                    /\ logStatus[q] \in {"success", "completed"}}

\* the links of the main page stored by the last successful run before r;
\* none when there is no such run
LastSuccessfulLinks(r) ==
    IF SuccessfulBefore(r) = {} THEN {}
    ELSE LET q == CHOOSE x \in SuccessfulBefore(r) :
                      \A y \in SuccessfulBefore(r) : y <= x
         IN local[q].new_html.links

\* C20: a run in subpage mode that gets through its link loop has crawled
\* exactly the links of the fetched main page that the main page stored by
\* the last successful run does not have (all links when there is none); so
\* a link whose fetch failed in a successful run is not crawled by the next.
CE_C20 ==
    \A r \in Runs :
        (/\ pc[r] = "done"
         /\ Site(r) # NoSite
         /\ fetch_subpages(Site(r))
         /\ local[r].exc \in {"none", "notify"}) =>
            /\ Crawled(r) = local[r].new_html.links \ LastSuccessfulLinks(r)
            /\ \A q \in SuccessfulBefore(r) :
                  (\A x \in SuccessfulBefore(r) : x <= q) =>
                      Crawled(r) \cap SeqToSet(local[q].subpage_errors) = {}

\* the subpage items given with a string url and html, in the order given
GivenSubpages == SelectSeq(snapCall.subpages, LAMBDA item : item.url # NoUrl)

\* the round completed: parse_snapshot applied to what build_snapshot returned
RoundTripped == snapCall.pc = "parsed" /\ snapCall.from = "built"

IsTrimmed(t, r) ==
    /\ r # <<>> /\ Head(r) # " " /\ r[Len(r)] # " "
    /\ \E k \in 0..Len(t) :
          /\ k + Len(r) <= Len(t)
          /\ SubSeq(t, k + 1, k + Len(r)) = r
          /\ \A i \in (1..k) \cup ((k + Len(r) + 1)..Len(t)) : t[i] = " "

\* a title that is None, empty or made of blanks
IsBlankTitle(t) == t = None \/ \A i \in 1..Len(t) : t[i] = " "

EntryIds(log_id) ==
    {detailTable[i].id : i \in {j \in 1..Len(detailTable) :
                                   detailTable[j].log_id = log_id}}

\* C22: a stream read of a log with after = N returns exactly the entries of
\* that log with an id above N (all of them when N is absent), and after each
\* request of a poller that passes the largest id it has received, the poller
\* holds every entry of the log exactly once.
Thm_C22 ==
    [][/\ \A log_id \in StreamLogs, after_id \in {NoAfter} \cup (0..MaxDetails) :
             stream_task_log_entries(log_id, after_id) =>
                /\ stream'.response.entries \subseteq EntryIds(log_id)
                /\ \A id \in EntryIds(log_id) :
                      id \in stream'.response.entries
                         <=> (after_id = NoAfter \/ id > after_id)
       /\ Poll =>
             /\ SeqToSet(stream'.received) = EntryIds(PolledLog)
             /\ Len(stream'.received) = Cardinality(EntryIds(PolledLog))
       /\ Len(stream'.received) = Cardinality(SeqToSet(stream'.received))
       /\ SeqToSet(stream'.received) \subseteq EntryIds(PolledLog)']_vars

\* the poller received the entries of its log in two requests while both
\* logs were receiving entries
Wit_C22 ==
    /\ stream.batches = 2
    /\ Len(stream.received) = 3
    /\ Len(detailTable) = MaxDetails
    /\ detailTable[1].log_id = 1 /\ detailTable[2].log_id = 2
    /\ detailTable[MaxDetails].log_id = 1
    /\ stream.response.after = 1 /\ stream.response.log_id = PolledLog
    /\ Cardinality(stream.response.entries) = 1

\* C23: however often and from however many request threads ensure_setup is
\* called, init_db and scheduler.start run once (exactly once as soon as a
\* call has returned) and at most one scheduler loop is running.
CE_C23 ==
    /\ setup.initDbRuns <= 1
    /\ setup.startRuns <= 1
    /\ Cardinality(setup.loops) <= 1
    /\ (\E t \in RequestThreads : setup.calls[t] > 0) =>
          setup.initDbRuns = 1 /\ setup.startRuns = 1

\* C24: the cursor of ProxyConfigService indexes an entry of the current pool
\* whenever the lock is free, get_next_proxy returns None exactly when the
\* pool is empty, and among the calls made since the last reload any n
\* consecutive ones on a pool of n entries return each entry exactly once.
Thm_C24 ==
    [][/\ proxy'.lock = 0 =>
             \/ proxy'.proxies = <<>> /\ proxy'.index = 0
             \/ proxy'.index < Len(proxy'.proxies)
       /\ \A t \in ProxyThreads :
             GetRead(t) =>
                /\ proxy'.result[t] = "None" <=> proxy.proxies = <<>>
                /\ proxy'.result[t] # "None" =>
                      proxy'.result[t] \in SeqToSet(proxy.proxies)
       /\ LET n == Len(proxy'.proxies)
              calls == Len(proxy'.returned)
          IN \A first \in 1..calls :
                first + n - 1 <= calls =>
                   {proxy'.returned[i] : i \in first..(first + n - 1)}
                      = SeqToSet(proxy'.proxies)]_vars

\* three calls on a reloaded pool of two entries from two threads, the third
\* wrapping around to the first entry
Wit_C24 ==
    /\ proxy.reloads = 1
    /\ Len(proxy.proxies) = 2
    /\ Len(proxy.returned) = 3
    /\ proxy.returned[3] = proxy.returned[1]
    /\ proxy.result[1] # proxy.result[2]
    /\ proxy.result[1] \in {"x", "y"} /\ proxy.result[2] \in {"x", "y"}

\* C25: once run_task has given a CrawlLog a terminal status, its status and
\* message never change again and no detail entry is appended to it, the
\* notification step included.
CE_C25 ==
    [][\A r \in Runs :
          logStatus[r] \in TerminalStatus =>
              /\ logStatus'[r] = logStatus[r]
              /\ logMessage'[r] = logMessage[r]
              /\ details'[r] = details[r]]_vars

\* the CrawlResult rows in the database that a run created
PersistedResults(r) == {x \in crawlResults : x.run = r}

\* C26: after a run whose CrawlLog ends failed, no CrawlResult created by
\* that run is persisted.
CE_C26 ==
    \A r \in Runs :
        (pc[r] = "done" /\ logStatus[r] = "failed") => PersistedResults(r) = {}

\* the run the scheduler thread is inside ends in failure: its CrawlLog is
\* marked failed, or run_task raises
FailsInTick(r) ==
    /\ schedRun = r /\ schedPc = "launch" /\ pc[r] # "done" /\ pc'[r] = "done"
    /\ logStatus'[r] = "failed" \/ HandlerRaise(r)

\* C27: when the run of one due task fails in any way, run_task raising
\* included, the tick goes on with the ids it has not launched yet, and it
\* ends only when every scheduled id was launched.
CE_C27 ==
    [][/\ \A r \in Runs :
             FailsInTick(r) => schedPc' = "launch" /\ schedQueue' = schedQueue
       /\ (schedPc = "launch" /\ schedPc' # "launch") => schedQueue = <<>>]_vars

\* C28: with encryption disabled in the email settings, no connection of a
\* delivery uses STARTTLS or implicit SSL, whatever the port and also after
\* the server dropped the connection.
CE_C28 ==
    (mail.pc # "idle" /\ ~mail.encryption_configured) =>
        /\ ~mail.use_tls /\ ~mail.use_ssl
        /\ \A i \in 1..Len(mail.attempts) : mail.attempts[i].mode = "plain"

\* run r fetched the main page of a single-page site that had no snapshot
FirstSinglePageRun(r) ==
    /\ runTask[r] # 0
    /\ Site(r) # NoSite
    /\ ~fetch_subpages(Site(r))
    /\ ~local[r].prev.present
    /\ local[r].new_html.html # ""

\* the run got through scoring and finalization
RanThrough(r) == pc[r] = "done" /\ local[r].exc \in {"none", "notify"}

\* the main page was scored, and a confirmed match was persisted and notified
ScoredAndNotified(r) ==
    \E e \in examined[r] :
        /\ e.url = MainUrl
        /\ ConfirmedPhrases(e.scores) # {} =>
              RowsOf(r, MainUrl) # {} /\ notifyCount[r] = 1

\* C29 as stated: in single-page mode a run on a site without snapshot
\* reports a change for every fetched page, scores it, and persists and
\* notifies a confirmed match.
CE_C29 ==
    \A r \in Runs :
        FirstSinglePageRun(r) =>
            /\ HasDetail(r, Detail("info", "changed", ""))
            /\ RanThrough(r) => ScoredAndNotified(r)

\* a document whose body holds text
HasBodyText(html) == html \in {"p", "p_ws", "q"}

\* C29 amended: in single-page mode a run on a site without snapshot reports
\* a change, scores the page and persists and notifies a confirmed match
\* when the body text of the fetched page is not empty; a page with an empty
\* body text is reported unchanged, is not scored, and the run ends
\* completed without notification.
Thm_C29 ==
    \A r \in Runs :
        FirstSinglePageRun(r) =>
            IF HasBodyText(local[r].new_html.html)
            THEN /\ HasDetail(r, Detail("info", "changed", ""))
                 /\ ~HasDetail(r, Detail("info", "unchanged", ""))
                 /\ RanThrough(r) => ScoredAndNotified(r)
            ELSE /\ HasDetail(r, Detail("info", "unchanged", ""))
                 /\ ~HasDetail(r, Detail("info", "changed", ""))
                 /\ examined[r] = {}
                 /\ notifyCount[r] = 0
                 /\ pc[r] = "done" => logStatus[r] = "completed"

\* a first run of the single-page task that found a confirmed match,
\* stored its CrawlResult and called the notifier
Wit_C29 ==
    \E r \in Runs :
        /\ FirstSinglePageRun(r)
        /\ local[r].new_html.html = "q"
        /\ pc[r] = "done"
        /\ logStatus[r] = "success"
        /\ RowsOf(r, MainUrl) # {}
        /\ notifyCount[r] = 1

\* C30: one call of fetch_html starts the render transport at most once and
\* makes at most one plain HTTP GET, and makes it
\* exactly when the render transport is unavailable or failed with a timeout
\* or another transport error; a render that succeeds returns its html
\* without a GET, and a failing GET is raised to the caller with nothing
\* tried after it.
Thm_C30 ==
    [][/\ fetchCall'.renders <= 1 /\ fetchCall'.gets <= 1
       /\ fetchCall.pc = "done" => fetchCall' = fetchCall
       /\ fetchCall'.render # "none" => fetchCall'.installed
       /\ fetchCall'.pc = "done" =>
             /\ fetchCall'.gets = 1 <=>
                   \/ ~fetchCall'.installed
                   \/ fetchCall'.render \in {"timeout", "error"}
             /\ fetchCall'.render = "ok" =>
                   fetchCall'.gets = 0 /\ fetchCall'.result = "render_html"
             /\ fetchCall'.get \in {"http_error", "exception"} =>
                   fetchCall'.result \in {"CrawlError", "raised"}
             /\ fetchCall'.get = "ok" => fetchCall'.result = "response_text"]_vars

\* a render that passed the networkidle timeout, failed at the load wait
\* with a timeout, and whose GET ended with an HTTP error raised to the caller
Wit_C30 ==
    /\ fetchCall.pc = "done"
    /\ fetchCall.idle_timeout
    /\ fetchCall.render = "timeout"
    /\ fetchCall.step = 4
    /\ fetchCall.gets = 1
    /\ fetchCall.result = "CrawlError"
====
